---- MODULE Spec2Model ----
(***************************************************************************)
(* MicroRTS benchmark arena and tournament runner: the single-elimination  *)
(* ladder of benchmark_arena.run_tournament and                            *)
(* tournament/run_tournament.run_tournament, the match executor run_game,  *)
(* and the score functions calculate_game_score and                        *)
(* calculate_benchmark_score.                                              *)
(*                                                                         *)
(* Scores are held in tenths: 1.2 is 12, 0.5 is 5, 12.0 is 120.  Python    *)
(* floats are modelled as exact rationals; round(x, 1) is rounding to the  *)
(* nearest tenth, ties to even, as Python does on a value that a double    *)
(* holds exactly.                                                          *)
(***************************************************************************)
EXTENDS Integers, Sequences, FiniteSets, TLC

(* ------------------------------ bounds -------------------------------- *)

\* the largest games_per_pair (--games N) a run is started with
MaxGames == 2

\* the largest number of contestants of a run (a prefix of LLMS / of the
\* discovered submissions)
MaxContestants == 2

\* the largest number of ladder games a run can need:
\* contestants x opponents x games_per_pair
MaxRunGames == 6

(* ------------------------- program constants -------------------------- *)

MAX_CYCLES == 1500

tournament_MAX_CYCLES == 1500

\* ANCHORS of benchmark_arena.py, in dict (insertion) order
ANCHORS ==
  << [cls |-> "ai.RandomBiasedAI", name |-> "RandomBiasedAI", weight |-> 10, tier |-> "easy"],
     [cls |-> "ai.abstraction.HeavyRush", name |-> "HeavyRush", weight |-> 20, tier |-> "medium-hard"],
     [cls |-> "ai.abstraction.LightRush", name |-> "LightRush", weight |-> 15, tier |-> "medium"],
     [cls |-> "ai.abstraction.WorkerRush", name |-> "WorkerRush", weight |-> 15, tier |-> "medium"],
     [cls |-> "ai.competition.tiamat.Tiamat", name |-> "Tiamat", weight |-> 20, tier |-> "hard"],
     [cls |-> "ai.coac.CoacAI", name |-> "CoacAI", weight |-> 20, tier |-> "hard"] >>

\* ANCHORS of tournament/run_tournament.py
tournament_ANCHORS ==
  << [cls |-> "ai.RandomBiasedAI", name |-> "RandomBiasedAI", weight |-> 10, tier |-> "easy"],
     [cls |-> "ai.abstraction.HeavyRush", name |-> "HeavyRush", weight |-> 20, tier |-> "medium-hard"],
     [cls |-> "ai.abstraction.LightRush", name |-> "LightRush", weight |-> 15, tier |-> "medium"],
     [cls |-> "ai.abstraction.WorkerRush", name |-> "WorkerRush", weight |-> 15, tier |-> "medium"],
     [cls |-> "ai.competition.tiamat.Tiamat", name |-> "Tiamat", weight |-> 20, tier |-> "hard"],
     [cls |-> "ai.coac.CoacAI", name |-> "CoacAI", weight |-> 20, tier |-> "hard"] >>

\* the opponent table of the specification's worked example
ExampleAnchors ==
  << [cls |-> "ex.A", name |-> "A", weight |-> 10, tier |-> "easy"],
     [cls |-> "ex.B", name |-> "B", weight |-> 20, tier |-> "medium"],
     [cls |-> "ex.C", name |-> "C", weight |-> 15, tier |-> "hard"] >>

Programs == {"benchmark_arena", "tournament"}

\* the opponent tables a run of program p iterates
AnchorTables(p) ==
  {IF p = "benchmark_arena" THEN ANCHORS ELSE tournament_ANCHORS, ExampleAnchors}

\* display names of contestants, by first appearance
ModelNames == <<"model_a", "model_b", "model_c", "model_d">>

None == "None"

Outcomes == {"win", "loss", "draw", "timeout", "error"}

\* tick counts the engine prints after FINAL_TICK: in a run
TickValues == {400}

\* tick counts the score function is probed with
ProbeTicks == {0, 1, 400, 749, 750, 751, 1000, 1124, 1125, 1126, 1499, 1500, 1501, 3000}

VARIABLES
  program,          \* which script runs
  anchors,          \* the ANCHORS table of the run
  games_per_pair,   \* run_tournament's parameter
  contestants,      \* LLMS.items() / contestants.items(): <<[cls, display]>>
  pc,               \* position of run_tournament
  aborted,          \* an exception left run_tournament
  llm_idx,          \* index of the contestant of the outer loop
  anchor_idx,       \* index of the opponent of the anchor loop
  game_num,         \* games played of the current batch
  eliminated,       \* the local flag of the ladder
  all_results,      \* display -> <<[key, games]>> (reference_games, in dict order)
  eliminated_at,    \* display -> opponent name or None
  benchmark_scores, \* display -> score in tenths
  config,           \* the configuration artifact resources/config.properties
  call,             \* the call under examination
  prev_call,        \* the call before it
  skip_h2h,         \* run_tournament's parameter (tournament script only)
  result_files,     \* the run records in the results directory, sorted by file name
  h2h_results,      \* the head-to-head games of phase 2, in playing order
  files,            \* the output files this run has written
  running,          \* the engine processes that are alive
  engine_log        \* the engine invocations so far: <<[ai1, ai2, slot]>>

vars == << program, anchors, games_per_pair, contestants, pc, aborted, llm_idx,
           anchor_idx, game_num, eliminated, all_results, eliminated_at,
           benchmark_scores, config, call, prev_call, skip_h2h, result_files, h2h_results,
           files, running, engine_log >>

extVars == << skip_h2h, result_files, h2h_results, files, running, engine_log >>

runVars == << program, anchors, games_per_pair, contestants, pc, aborted, llm_idx,
              anchor_idx, game_num, eliminated, all_results, eliminated_at,
              benchmark_scores, config, extVars >>

(* ------------------------------ helpers ------------------------------- *)

Min(a, b) == IF a <= b THEN a ELSE b

\* the empty dict
EmptyDict == [k \in {} |-> 0]

\* d[k] = v on a dict held as a function
DictSet(d, k, v) == [x \in DOMAIN d \cup {k} |-> IF x = k THEN v ELSE d[x]]

\* whether key k is in the insertion-ordered dict refs
HasKey(refs, k) == \E i \in 1..Len(refs) : refs[i].key = k

\* refs[k] of the insertion-ordered dict refs
Lookup(refs, k) == refs[CHOOSE i \in 1..Len(refs) : refs[i].key = k].games

\* round(num/den) to the nearest integer, ties to even
RoundHalfEven(num, den) ==
  LET q == num \div den
      r == num % den
  IN  IF 2 * r < den THEN q
      ELSE IF 2 * r > den THEN q + 1
      ELSE IF q % 2 = 0 THEN q ELSE q + 1

(* ------------------- benchmark_arena.py: scoring ---------------------- *)

\* calculate_game_score with the fast-win bonus granted under a quarter of the
\* ceiling instead of half
calculate_game_score_QuarterBonus(result, ticks) ==
  IF result = "win"
    THEN LET base == 10
             bonus == IF 4 * ticks < MAX_CYCLES THEN 2
                      ELSE IF 4 * ticks < 3 * MAX_CYCLES THEN 1
                      ELSE 0
         IN  Min(12, base + bonus)
  ELSE IF result = "draw" THEN 5
  ELSE 0

\* calculate_game_score with the comparisons turned round: slow wins earn the bonus
calculate_game_score_SlowBonus(result, ticks) ==
  IF result = "win"
    THEN LET base == 10
             bonus == IF 2 * ticks > MAX_CYCLES THEN 2
                      ELSE IF 4 * ticks > MAX_CYCLES THEN 1
                      ELSE 0
         IN  Min(12, base + bonus)
  ELSE IF result = "draw" THEN 5
  ELSE 0

\* calculate_game_score(result, ticks), in tenths.
\* ticks < MAX_CYCLES * 0.5 is 2*ticks < MAX_CYCLES; ticks < MAX_CYCLES * 0.75
\* is 4*ticks < 3*MAX_CYCLES.
calculate_game_score(result, ticks) ==
  IF result = "win"
    THEN LET base == 10
             bonus == IF 2 * ticks < MAX_CYCLES THEN 2
                      ELSE IF 4 * ticks < 3 * MAX_CYCLES THEN 1
                      ELSE 0
         IN  Min(12, base + bonus)
  ELSE IF result = "draw" THEN 5
  ELSE 0

\* sum(calculate_game_score(g["result"], g["ticks"]) for g in games)
RECURSIVE SumGameScores(_)
SumGameScores(games) ==
  IF games = << >> THEN 0
  ELSE calculate_game_score(Head(games).result, Head(games).ticks)
         + SumGameScores(Tail(games))

\* total_score with the per-opponent sum not divided by len(games)
RECURSIVE TotalScore_NoAverage(_, _, _)
TotalScore_NoAverage(table, llm_results, i) ==
  IF i = 0 THEN [num |-> 0, den |-> 1]
  ELSE LET prev == TotalScore_NoAverage(table, llm_results, i - 1)
           anchor_class == table[i].cls
           anchor_info == table[i]
       IN  IF HasKey(llm_results, anchor_class)
                /\ Lookup(llm_results, anchor_class) # << >>
             THEN LET games == Lookup(llm_results, anchor_class)
                  IN  [num |-> prev.num + SumGameScores(games) * anchor_info.weight * prev.den,
                       den |-> prev.den]
             ELSE prev

\* total_score after the first i anchors of the loop, as a fraction of tenths
RECURSIVE TotalScore(_, _, _)
TotalScore(table, llm_results, i) ==
  IF i = 0 THEN [num |-> 0, den |-> 1]
  ELSE LET prev == TotalScore(table, llm_results, i - 1)
           anchor_class == table[i].cls
           anchor_info == table[i]
       IN  IF HasKey(llm_results, anchor_class)
                /\ Lookup(llm_results, anchor_class) # << >>
             THEN LET games == Lookup(llm_results, anchor_class)
                  IN  [num |-> prev.num * Len(games)
                                 + SumGameScores(games) * anchor_info.weight * prev.den,
                       den |-> prev.den * Len(games)]
             ELSE prev

\* calculate_benchmark_score(llm_results) over the opponent table, in tenths
BenchmarkScoreOver(table, llm_results) ==
  LET total_score == TotalScore(table, llm_results, Len(table))
  IN  RoundHalfEven(total_score.num, total_score.den)

calculate_benchmark_score(llm_results) == BenchmarkScoreOver(anchors, llm_results)

(* --------------- tournament/run_tournament.py: scoring ---------------- *)

\* tournament calculate_game_score giving a draw nothing
tournament_calculate_game_score_DrawZero(result, ticks) ==
  IF result = "win"
    THEN LET base == 10
             bonus == IF 2 * ticks < tournament_MAX_CYCLES THEN 2
                      ELSE IF 4 * ticks < 3 * tournament_MAX_CYCLES THEN 1
                      ELSE 0
         IN  Min(12, base + bonus)
  ELSE 0

\* tournament calculate_game_score with <= for < at the thresholds
tournament_calculate_game_score_Inclusive(result, ticks) ==
  IF result = "win"
    THEN LET base == 10
             bonus == IF 2 * ticks <= tournament_MAX_CYCLES THEN 2
                      ELSE IF 4 * ticks <= 3 * tournament_MAX_CYCLES THEN 1
                      ELSE 0
         IN  Min(12, base + bonus)
  ELSE IF result = "draw" THEN 5
  ELSE 0

tournament_calculate_game_score(result, ticks) ==
  IF result = "win"
    THEN LET base == 10
             bonus == IF 2 * ticks < tournament_MAX_CYCLES THEN 2
                      ELSE IF 4 * ticks < 3 * tournament_MAX_CYCLES THEN 1
                      ELSE 0
         IN  Min(12, base + bonus)
  ELSE IF result = "draw" THEN 5
  ELSE 0

RECURSIVE tournament_SumGameScores(_)
tournament_SumGameScores(games) ==
  IF games = << >> THEN 0
  ELSE tournament_calculate_game_score(Head(games).result, Head(games).ticks)
         + tournament_SumGameScores(Tail(games))

RECURSIVE tournament_TotalScore(_, _, _)
tournament_TotalScore(table, results, i) ==
  IF i = 0 THEN [num |-> 0, den |-> 1]
  ELSE LET prev == tournament_TotalScore(table, results, i - 1)
           anchor_class == table[i].cls
           anchor_info == table[i]
       IN  IF HasKey(results, anchor_class) /\ Lookup(results, anchor_class) # << >>
             THEN LET games == Lookup(results, anchor_class)
                  IN  [num |-> prev.num * Len(games)
                                 + tournament_SumGameScores(games) * anchor_info.weight * prev.den,
                       den |-> prev.den * Len(games)]
             ELSE prev

tournament_BenchmarkScoreOver(table, results) ==
  LET total_score == tournament_TotalScore(table, results, Len(table))
  IN  RoundHalfEven(total_score.num, total_score.den)

tournament_calculate_benchmark_score(results) ==
  tournament_BenchmarkScoreOver(anchors, results)

\* the score functions of the running script
GameScore(p, result, ticks) ==
  IF p = "benchmark_arena" THEN calculate_game_score(result, ticks)
  ELSE tournament_calculate_game_score(result, ticks)

BenchmarkScore(p, results) ==
  IF p = "benchmark_arena" THEN calculate_benchmark_score(results)
  ELSE tournament_calculate_benchmark_score(results)

(* --------------------------- run_game --------------------------------- *)

\* What the engine process can do: it exits (any return code) with an output,
\* it outlives GAME_TIMEOUT, or subprocess.run raises.  Of the output only what
\* run_game reads is kept: the first WINNER: match, the first FINAL_TICK:
\* match (<< >> when the pattern is absent) and the two phrases.
EngineRuns ==
  [kind : {"exited"}, returncode : {0, 1},
   winner_match : {<< >>, <<-1>>, <<0>>, <<1>>, <<2>>},
   tick_match : {<< >>} \cup {<<t>> : t \in TickValues},
   player0_wins : BOOLEAN, player1_wins : BOOLEAN]
  \cup
  [kind : {"timeout", "exception"}, returncode : {0},
   winner_match : {<< >>}, tick_match : {<< >>},
   player0_wins : {FALSE}, player1_wins : {FALSE}]

\* the parse with the "Player N wins" phrases looked at before the sentinel
ParsedWinner_PhraseFirst(run) ==
  IF run.player0_wins THEN <<0>>
  ELSE IF run.player1_wins THEN <<1>>
  ELSE run.winner_match

\* the parse of run_game: the winner it settles on (None, or an integer)
ParsedWinner(run) ==
  IF run.winner_match # << >> THEN run.winner_match
  ELSE IF run.player0_wins THEN <<0>>
  ELSE IF run.player1_wins THEN <<1>>
  ELSE << >>

ParsedTicks(run, max_cycles) ==
  IF run.tick_match # << >> THEN run.tick_match[1] ELSE max_cycles

\* run_game reporting, on a timeout, the tick count the output held
GameResult_TimeoutParsesOutput(run, max_cycles) ==
  IF run.kind = "timeout"
    THEN [result |-> "timeout", ticks |-> ParsedTicks(run, max_cycles), error |-> ""]
  ELSE IF run.kind = "exception"
    THEN [result |-> "error", ticks |-> 0, error |-> "str(e)"]
  ELSE LET winner == ParsedWinner(run)
           ticks == ParsedTicks(run, max_cycles)
       IN  IF winner = <<0>> THEN [result |-> "win", ticks |-> ticks, error |-> ""]
           ELSE IF winner = <<1>> THEN [result |-> "loss", ticks |-> ticks, error |-> ""]
           ELSE [result |-> "draw", ticks |-> ticks, error |-> ""]

\* the dict run_game returns (without game_num and opponent)
GameResult(run, max_cycles) ==
  IF run.kind = "timeout"
    THEN [result |-> "timeout", ticks |-> max_cycles, error |-> ""]
  ELSE IF run.kind = "exception"
    THEN [result |-> "error", ticks |-> 0, error |-> "str(e)"]
  ELSE LET winner == ParsedWinner(run)
           ticks == ParsedTicks(run, max_cycles)
       IN  IF winner = <<0>> THEN [result |-> "win", ticks |-> ticks, error |-> ""]
           ELSE IF winner = <<1>> THEN [result |-> "loss", ticks |-> ticks, error |-> ""]
           ELSE [result |-> "draw", ticks |-> ticks, error |-> ""]

run_game(run) == GameResult(run, MAX_CYCLES)

tournament_run_game(run) == GameResult(run, tournament_MAX_CYCLES)

RunGame(p, run) ==
  IF p = "benchmark_arena" THEN run_game(run) ELSE tournament_run_game(run)

\* The configuration artifact is a sequence of lines [key, value]: key is the
\* text of the line up to its first "=", value the rest.
\* a substitution that appends KEY=value when no line starts with KEY=
ReSub_AddsMissing(cfg, key, value) ==
  IF \E i \in 1..Len(cfg) : cfg[i].key = key
    THEN [i \in 1..Len(cfg) |->
            IF cfg[i].key = key THEN [key |-> key, value |-> value] ELSE cfg[i]]
    ELSE Append(cfg, [key |-> key, value |-> value])

\* re.sub(r'^KEY=.*$', 'KEY=value', content, flags=re.MULTILINE): every line
\* that starts with KEY= is replaced; a file without such a line is unchanged
ReSub(cfg, key, value) ==
  [i \in 1..Len(cfg) |->
     IF cfg[i].key = key THEN [key |-> key, value |-> value] ELSE cfg[i]]

\* update_config(ai1, ai2): the four substitutions, then the file rewritten
update_config(cfg, ai1, ai2) ==
  ReSub(ReSub(ReSub(ReSub(cfg, "AI1", ai1), "AI2", ai2),
              "max_cycles", ToString(MAX_CYCLES)),
        "headless", "true")

tournament_update_config(cfg, ai1, ai2) ==
  ReSub(ReSub(ReSub(ReSub(cfg, "AI1", ai1), "AI2", ai2),
              "max_cycles", ToString(tournament_MAX_CYCLES)),
        "headless", "true")

UpdateConfig(p, cfg, ai1, ai2) ==
  IF p = "benchmark_arena" THEN update_config(cfg, ai1, ai2)
  ELSE tournament_update_config(cfg, ai1, ai2)

\* has_win with a draw counted as a win
has_win_DrawCounts(games) ==
  \E i \in 1..Len(games) : games[i].result \in {"win", "draw"}

\* any(g["result"] == "win" for g in games)
has_win(games) == \E i \in 1..Len(games) : games[i].result = "win"

(* ------------------------------ the run ------------------------------- *)

ClassNames == <<"ai.contestant1", "ai.contestant2", "ai.contestant3", "ai.contestant4">>

\* display names by first appearance: two contestants may share one
\* (OLLAMA_MODEL = OLLAMA_MODEL_P2; two manifests with one display_name)
DisplayIndexes(n) ==
  {d \in [1..n -> 1..n] :
     /\ d[1] = 1
     /\ \A i \in 2..n : \E j \in 1..(i - 1) : d[i] <= d[j] + 1}

ContestantLists ==
  {[i \in 1..n |-> [cls |-> ClassNames[i], display |-> ModelNames[d[i]]]] :
     <<n, d>> \in {<<m, e>> \in (1..MaxContestants) \X UNION {DisplayIndexes(k) : k \in 1..MaxContestants} :
                       e \in DisplayIndexes(m)}}

NoCall == [fn |-> "none", program |-> "none", result |-> "none", ticks |-> 0, ret |-> 0]

\* a configuration artifact with a line for every key of the engine
InitialConfig ==
  << [key |-> "launch_mode", value |-> "STANDALONE"],
     [key |-> "map_location", value |-> "maps/8x8/basesWorkers8x8.xml"],
     [key |-> "max_cycles", value |-> "5000"],
     [key |-> "headless", value |-> "false"],
     [key |-> "AI1", value |-> "ai.RandomBiasedAI"],
     [key |-> "AI2", value |-> "ai.RandomBiasedAI"] >>

Init ==
  /\ program \in Programs
  /\ anchors \in AnchorTables(program)
  /\ games_per_pair \in 0..MaxGames
  /\ contestants \in ContestantLists
  /\ Len(contestants) * games_per_pair * Len(anchors) <= MaxRunGames
  /\ pc = "llm_loop"
  /\ aborted = FALSE
  /\ llm_idx = 0
  /\ anchor_idx = 0
  /\ game_num = 0
  /\ eliminated = FALSE
  /\ all_results = EmptyDict
  /\ eliminated_at = EmptyDict
  /\ benchmark_scores = EmptyDict
  /\ config = InitialConfig
  /\ call = NoCall
  /\ prev_call = NoCall
  /\ skip_h2h \in (IF program = "tournament" /\ Len(contestants) > 1
                    THEN BOOLEAN ELSE {FALSE})
  /\ result_files = << >>
  /\ h2h_results = << >>
  /\ files = {}
  /\ running = {}
  /\ engine_log = << >>

\* the contestant of the outer loop
llm_class == contestants[llm_idx].cls

llm_name == contestants[llm_idx].display

\* the opponent table iterated from its end
AnchorItem_Reversed(i) == anchors[Len(anchors) + 1 - i]

\* for anchor_class, anchor_info in ANCHORS.items(): the i-th item
AnchorItem(i) == anchors[i]

\* the game loop left as soon as a game is won
BatchDone_EarlyExit(n, games) ==
  n >= games_per_pair \/ \E i \in 1..Len(games) : games[i].result = "win"

\* for game_num in range(games_per_pair): the loop is exhausted after n games
BatchDone(n, games) == n >= games_per_pair

\* reference_games[key] = games on the insertion-ordered dict
RefSet(refs, key, games) ==
  IF HasKey(refs, key)
    THEN [i \in 1..Len(refs) |->
            IF refs[i].key = key THEN [key |-> key, games |-> games] ELSE refs[i]]
    ELSE Append(refs, [key |-> key, games |-> games])

\* the ladder of the next contestant starts
StartLadder ==
  /\ pc = "llm_loop" /\ ~aborted
  /\ llm_idx < Len(contestants)
  /\ LET name == contestants[llm_idx + 1].display
     IN  /\ all_results' = DictSet(all_results, name, [reference_games |-> << >>])
         /\ eliminated_at' = DictSet(eliminated_at, name, None)
  /\ eliminated' = FALSE
  /\ llm_idx' = llm_idx + 1
  /\ anchor_idx' = 1
  /\ game_num' = 0
  /\ pc' = "anchor_loop"
  /\ UNCHANGED << program, anchors, games_per_pair, contestants, aborted,
                  benchmark_scores, config, call, prev_call >>
  /\ UNCHANGED extVars

\* the next opponent's batch is opened
BeginBatch ==
  /\ pc = "anchor_loop" /\ ~aborted
  /\ ~eliminated
  /\ anchor_idx <= Len(anchors)
  /\ all_results' =
       [all_results EXCEPT ![llm_name].reference_games =
          RefSet(@, AnchorItem(anchor_idx).cls, << >>)]
  /\ game_num' = 0
  /\ pc' = "game_loop"
  /\ UNCHANGED << program, anchors, games_per_pair, contestants, aborted, llm_idx,
                  anchor_idx, eliminated, eliminated_at, benchmark_scores, config,
                  call, prev_call >>
  /\ UNCHANGED extVars

CurrentGames == Lookup(all_results[llm_name].reference_games, AnchorItem(anchor_idx).cls)

\* what the operating system sees of one subprocess.run
Invocation(ai1, ai2, slot) == [ai1 |-> ai1, ai2 |-> ai2, slot |-> slot]

\* game g of contestant l against opponent a of the ladder
LadderSlot(l, a, g) == << "ladder", l, a, g >>

\* game g of contestant i against contestant j in phase 2
H2HSlot(i, j, g) == << "h2h", i, j, g >>

\* the game loop running a timed-out or errored game again
PlayGame_RetryOnTimeout ==
  /\ pc = "game_loop" /\ ~aborted
  /\ ~BatchDone(game_num, CurrentGames)
  /\ \E run \in EngineRuns :
       LET anchor_class == AnchorItem(anchor_idx).cls
           anchor_info == AnchorItem(anchor_idx)
           r == RunGame(program, run)
           result == [result |-> r.result, ticks |-> r.ticks, error |-> r.error,
                      game_num |-> game_num + 1, opponent |-> anchor_info.name]
       IN  /\ config' = UpdateConfig(program, config, llm_class, anchor_class)
           /\ engine_log' = Append(engine_log, Invocation(llm_class, anchor_class,
                                      LadderSlot(llm_idx, anchor_idx, game_num + 1)))
           /\ IF r.result \in {"timeout", "error"}
                 THEN UNCHANGED << all_results, game_num >>
                 ELSE /\ all_results' =
                           [all_results EXCEPT ![llm_name].reference_games =
                              RefSet(@, anchor_class, Append(Lookup(@, anchor_class), result))]
                      /\ game_num' = game_num + 1
  /\ UNCHANGED << program, anchors, games_per_pair, contestants, pc, aborted, llm_idx,
                  anchor_idx, eliminated, eliminated_at, benchmark_scores, call,
                  prev_call, skip_h2h, result_files, h2h_results, files, running >>

\* one game of the batch: update_config, the engine process, the parse, the append
PlayGame ==
  /\ pc = "game_loop" /\ ~aborted
  /\ ~BatchDone(game_num, CurrentGames)
  /\ \E run \in EngineRuns :
       LET anchor_class == AnchorItem(anchor_idx).cls
           anchor_info == AnchorItem(anchor_idx)
           r == RunGame(program, run)
           result == [result |-> r.result, ticks |-> r.ticks, error |-> r.error,
                      game_num |-> game_num + 1, opponent |-> anchor_info.name]
       IN  /\ config' = UpdateConfig(program, config, llm_class, anchor_class)
           /\ engine_log' = Append(engine_log, Invocation(llm_class, anchor_class,
                                      LadderSlot(llm_idx, anchor_idx, game_num + 1)))
           /\ all_results' =
                [all_results EXCEPT ![llm_name].reference_games =
                   RefSet(@, anchor_class, Append(Lookup(@, anchor_class), result))]
  /\ game_num' = game_num + 1
  /\ UNCHANGED << program, anchors, games_per_pair, contestants, pc, aborted, llm_idx,
                  anchor_idx, eliminated, eliminated_at, benchmark_scores, call,
                  prev_call, skip_h2h, result_files, h2h_results, files, running >>

\* for i, llm1 in enumerate(llm_list): for llm2 in llm_list[i+1:]: the pairs
\* of phase 2 in playing order
H2HPairs(n) ==
  LET pairs == {pr \in (1..n) \X (1..n) : pr[1] < pr[2]}
      Before(q, pr) == q[1] < pr[1] \/ (q[1] = pr[1] /\ q[2] < pr[2])
  IN  [k \in 1..Cardinality(pairs) |->
         CHOOSE pr \in pairs : Cardinality({q \in pairs : Before(q, pr)}) = k - 1]

\* the number of games phase 2 plays; the tournament script skips the phase
\* on --skip-h2h or with fewer than two contestants
H2HGames ==
  IF program = "tournament" /\ (skip_h2h \/ Len(contestants) <= 1) THEN 0
  ELSE Len(H2HPairs(Len(contestants))) * games_per_pair

\* a match is due: the next call of run_game
MatchDue ==
  \/ pc = "game_loop" /\ ~BatchDone(game_num, CurrentGames)
  \/ pc = "phase2" /\ Len(h2h_results) < H2HGames

\* what a failed update_config leaves of the artifact: the read raised and
\* the file is as it was, or open(CONFIG_FILE, 'w') truncated it and the
\* write raised
FailedWrites(cfg) == {cfg, << >>}

\* update_config raises (the artifact cannot be read or written): the exception
\* is outside run_game's try and leaves run_tournament
ConfigWriteFails ==
  /\ ~aborted
  /\ MatchDue
  /\ aborted' = TRUE
  /\ config' \in FailedWrites(config)
  /\ UNCHANGED << program, anchors, games_per_pair, contestants, pc, llm_idx,
                  anchor_idx, game_num, eliminated, all_results, eliminated_at,
                  benchmark_scores, call, prev_call >>
  /\ UNCHANGED extVars

\* CheckWin that records the elimination but does not set the flag that
\* breaks the anchor loop
CheckWin_NoBreak ==
  /\ pc = "game_loop" /\ ~aborted
  /\ BatchDone(game_num, CurrentGames)
  /\ LET games == CurrentGames
     IN  IF ~has_win(games)
           THEN eliminated_at' =
                  [eliminated_at EXCEPT ![llm_name] = AnchorItem(anchor_idx).name]
           ELSE UNCHANGED eliminated_at
  /\ anchor_idx' = anchor_idx + 1
  /\ pc' = "anchor_loop"
  /\ UNCHANGED << program, anchors, games_per_pair, contestants, aborted, llm_idx,
                  game_num, eliminated, all_results, benchmark_scores, config, call,
                  prev_call >>
  /\ UNCHANGED extVars

\* CheckWin that breaks the anchor loop but does not record where
CheckWin_NoMarker ==
  /\ pc = "game_loop" /\ ~aborted
  /\ BatchDone(game_num, CurrentGames)
  /\ LET games == CurrentGames
     IN  IF ~has_win(games)
           THEN eliminated' = TRUE
           ELSE UNCHANGED eliminated
  /\ anchor_idx' = anchor_idx + 1
  /\ pc' = "anchor_loop"
  /\ UNCHANGED << program, anchors, games_per_pair, contestants, aborted, llm_idx,
                  game_num, all_results, eliminated_at, benchmark_scores, config, call,
                  prev_call >>
  /\ UNCHANGED extVars

\* CheckWin that lets a contestant without a win go on to the next opponent
CheckWin_NoElimination ==
  /\ pc = "game_loop" /\ ~aborted
  /\ BatchDone(game_num, CurrentGames)
  /\ anchor_idx' = anchor_idx + 1
  /\ pc' = "anchor_loop"
  /\ UNCHANGED << program, anchors, games_per_pair, contestants, aborted, llm_idx,
                  game_num, eliminated, eliminated_at, all_results, benchmark_scores,
                  config, call, prev_call >>
  /\ UNCHANGED extVars

\* the batch is over: the check for a win against this opponent
CheckWin ==
  /\ pc = "game_loop" /\ ~aborted
  /\ BatchDone(game_num, CurrentGames)
  /\ LET games == CurrentGames
     IN  IF ~has_win(games)
           THEN /\ eliminated' = TRUE
                /\ eliminated_at' =
                     [eliminated_at EXCEPT ![llm_name] = AnchorItem(anchor_idx).name]
           ELSE UNCHANGED << eliminated, eliminated_at >>
  /\ anchor_idx' = anchor_idx + 1
  /\ pc' = "anchor_loop"
  /\ UNCHANGED << program, anchors, games_per_pair, contestants, aborted, llm_idx,
                  game_num, all_results, benchmark_scores, config, call, prev_call >>
  /\ UNCHANGED extVars

\* the anchor loop ends (break after an elimination, or no opponent is left)
\* and the contestant's benchmark score is computed
FinishLadder ==
  /\ pc = "anchor_loop" /\ ~aborted
  /\ eliminated \/ anchor_idx > Len(anchors)
  /\ benchmark_scores' =
       DictSet(benchmark_scores, llm_name,
               BenchmarkScore(program, all_results[llm_name].reference_games))
  /\ anchor_idx' = 0
  /\ game_num' = 0
  /\ pc' = "llm_loop"
  /\ UNCHANGED << program, anchors, games_per_pair, contestants, aborted, llm_idx,
                  eliminated, all_results, eliminated_at, config, call, prev_call >>
  /\ UNCHANGED extVars

\* every contestant has run its ladder
EndPhase1 ==
  /\ pc = "llm_loop" /\ ~aborted
  /\ llm_idx = Len(contestants)
  /\ pc' = "phase2"
  /\ UNCHANGED << program, anchors, games_per_pair, contestants, aborted, llm_idx,
                  anchor_idx, game_num, eliminated, all_results, eliminated_at,
                  benchmark_scores, config, call, prev_call >>
  /\ UNCHANGED extVars

\* one head-to-head game of phase 2
PlayH2H ==
  /\ pc = "phase2" /\ ~aborted
  /\ Len(h2h_results) < H2HGames
  /\ \E run \in EngineRuns :
       LET k == Len(h2h_results)
           pr == H2HPairs(Len(contestants))[(k \div games_per_pair) + 1]
           llm1 == contestants[pr[1]]
           llm2 == contestants[pr[2]]
           r == RunGame(program, run)
           result == [result |-> r.result, ticks |-> r.ticks, error |-> r.error,
                      player0 |-> llm1.display, player1 |-> llm2.display]
       IN  /\ config' = UpdateConfig(program, config, llm1.cls, llm2.cls)
           /\ engine_log' = Append(engine_log, Invocation(llm1.cls, llm2.cls,
                                      H2HSlot(pr[1], pr[2], (k % games_per_pair) + 1)))
           /\ h2h_results' = Append(h2h_results, result)
  /\ UNCHANGED << program, anchors, games_per_pair, contestants, pc, aborted, llm_idx,
                  anchor_idx, game_num, eliminated, all_results, eliminated_at,
                  benchmark_scores, call, prev_call, skip_h2h, result_files, files, running >>

\* the files run_tournament writes once every match is played
OutputFiles(p) ==
  IF p = "benchmark_arena"
    THEN {"benchmark_results/benchmark_<timestamp>.json",
          "benchmark_results/leaderboard.json",
          "benchmark_results/RESULTS.md"}
    ELSE {"tournament_results/tournament_<timestamp>.json"}

\* the run record written although the run was aborted
SaveResults_EvenIfAborted ==
  /\ pc = "phase2"
  /\ aborted \/ Len(h2h_results) = H2HGames
  /\ files' = files \cup OutputFiles(program)
  /\ pc' = "done"
  /\ UNCHANGED << program, anchors, games_per_pair, contestants, aborted, llm_idx,
                  anchor_idx, game_num, eliminated, all_results, eliminated_at,
                  benchmark_scores, config, call, prev_call, skip_h2h, result_files, h2h_results,
                  running, engine_log >>

\* the end of run_tournament: the results are displayed and the run record
\* (with the arena's leaderboard and markdown) is written
SaveResults ==
  /\ pc = "phase2" /\ ~aborted
  /\ Len(h2h_results) = H2HGames
  /\ files' = files \cup OutputFiles(program)
  /\ pc' = "done"
  /\ UNCHANGED << program, anchors, games_per_pair, contestants, aborted, llm_idx,
                  anchor_idx, game_num, eliminated, all_results, eliminated_at,
                  benchmark_scores, config, call, prev_call, skip_h2h, result_files, h2h_results,
                  running, engine_log >>

Next ==
  \/ StartLadder
  \/ BeginBatch
  \/ PlayGame
  \/ ConfigWriteFails
  \/ CheckWin
  \/ FinishLadder
  \/ EndPhase1
  \/ PlayH2H
  \/ SaveResults

Spec == Init /\ [][Next]_vars

(* ------------------- the score function on its own -------------------- *)

ScoreInit ==
  /\ program = "benchmark_arena"
  /\ anchors = ANCHORS
  /\ games_per_pair = 1
  /\ contestants = << [cls |-> ClassNames[1], display |-> ModelNames[1]] >>
  /\ pc = "score_functions"
  /\ aborted = FALSE
  /\ llm_idx = 0
  /\ anchor_idx = 0
  /\ game_num = 0
  /\ eliminated = FALSE
  /\ all_results = EmptyDict
  /\ eliminated_at = EmptyDict
  /\ benchmark_scores = EmptyDict
  /\ config = InitialConfig
  /\ call = NoCall
  /\ prev_call = NoCall
  /\ skip_h2h = FALSE
  /\ result_files = << >>
  /\ h2h_results = << >>
  /\ files = {}
  /\ running = {}
  /\ engine_log = << >>

\* one call of calculate_game_score of either script
CallGameScore ==
  /\ pc = "score_functions"
  /\ \E p \in Programs, result \in Outcomes, ticks \in ProbeTicks :
       call' = [fn |-> "calculate_game_score", program |-> p, result |-> result,
                ticks |-> ticks, ret |-> GameScore(p, result, ticks)]
  /\ prev_call' = call
  /\ UNCHANGED runVars

ScoreNext == CallGameScore

ScoreSpec == ScoreInit /\ [][ScoreNext]_vars

(* ------------------------- reading the state -------------------------- *)

\* the recorded reference games of display name d, in recording order
Refs(d) == all_results[d].reference_games

InLadder == pc \in {"anchor_loop", "game_loop"}

\* the ladder recorded under display name d has ended and been scored
LadderDone(d) ==
  /\ d \in DOMAIN benchmark_scores
  /\ d \in DOMAIN all_results
  /\ ~(InLadder /\ llm_name = d)

\* batch i of d is the one the game loop is still filling or about to check
BatchOpen(d, i) ==
  /\ pc = "game_loop"
  /\ llm_name = d
  /\ i = anchor_idx

WinCount(games) == Cardinality({j \in 1..Len(games) : games[j].result = "win"})

\* the games recorded for d against the k-th opponent of the ladder
GamesAgainst(d, k) ==
  IF HasKey(Refs(d), anchors[k].cls) THEN Lookup(Refs(d), anchors[k].cls) ELSE << >>

AnchorIndex(nm) == CHOOSE i \in 1..Len(anchors) : anchors[i].name = nm

(* ------------------------------ C1 ------------------------------------ *)

\* C1: in every reachable state, for every contestant, opponent k+1 has
\* recorded games only if the contestant won at least one game against
\* opponent k, and no opponent after the elimination point has a recorded game.
C1_NextOnlyAfterWin ==
  \A d \in DOMAIN all_results :
    /\ \A k \in 1..(Len(anchors) - 1) :
         GamesAgainst(d, k + 1) # << >> => WinCount(GamesAgainst(d, k)) >= 1
    /\ eliminated_at[d] # None =>
         \A j \in (AnchorIndex(eliminated_at[d]) + 1)..Len(anchors) :
           /\ GamesAgainst(d, j) = << >>
           /\ ~HasKey(Refs(d), anchors[j].cls)

\* a contestant that advanced past an opponent and was eliminated before the last
C1_Witness ==
  \E d \in DOMAIN all_results :
    /\ eliminated_at[d] # None
    /\ AnchorIndex(eliminated_at[d]) >= 2
    /\ AnchorIndex(eliminated_at[d]) < Len(anchors)
    /\ GamesAgainst(d, AnchorIndex(eliminated_at[d])) # << >>
    /\ LadderDone(d)

(* ------------------------------ C2 ------------------------------------ *)

\* the recorded opponent list of d is a prefix of the ladder order
RecordedIsPrefix(d) ==
  /\ Len(Refs(d)) <= Len(anchors)
  /\ \A i \in 1..Len(Refs(d)) : Refs(d)[i].key = anchors[i].cls

\* C2 as stated: opponents are attempted in ascending ladder order and at the
\* end of the ladder the recorded opponent list is a strict prefix of the order.
C2_StrictPrefix ==
  \A d \in DOMAIN all_results :
    /\ RecordedIsPrefix(d)
    /\ LadderDone(d) => Len(Refs(d)) < Len(anchors)

\* C2 amended: opponents are attempted in ascending ladder order, so the
\* recorded opponent list is always a prefix of the order; at the end of the
\* ladder it is non-empty, and it is a strict prefix exactly when the
\* contestant was eliminated before the last opponent (a contestant that
\* reaches the last opponent has the whole order recorded).
C2_Prefix ==
  \A d \in DOMAIN all_results :
    /\ RecordedIsPrefix(d)
    /\ LadderDone(d) =>
         /\ Len(Refs(d)) >= 1
         /\ Len(Refs(d)) < Len(anchors) <=>
              /\ eliminated_at[d] # None
              /\ AnchorIndex(eliminated_at[d]) < Len(anchors)

\* two finished ladders, one stopped early and one holding the whole order
C2_Witness ==
  \E d, e \in DOMAIN all_results :
    /\ LadderDone(d) /\ LadderDone(e)
    /\ Len(Refs(d)) = 2
    /\ Len(Refs(e)) = Len(anchors)
    /\ \A i \in 1..Len(Refs(d)) : Refs(d)[i].games # << >>

(* ------------------------------ C3 ------------------------------------ *)

\* C3: at the end of a ladder the last recorded opponent has either a win,
\* with the contestant cleared (eliminated_at is None and it is the final
\* opponent), or no win, with eliminated_at naming exactly that opponent;
\* eliminated_at is None iff the contestant won a game against every opponent.
C3_MarkerConsistent ==
  \A d \in DOMAIN all_results :
    LadderDone(d) =>
      LET n == Len(Refs(d))
      IN  /\ n >= 1
          /\ \/ /\ WinCount(Refs(d)[n].games) >= 1
                /\ eliminated_at[d] = None
                /\ n = Len(anchors)
             \/ /\ WinCount(Refs(d)[n].games) = 0
                /\ eliminated_at[d] = anchors[n].name
          /\ eliminated_at[d] = None <=>
               \A k \in 1..Len(anchors) : WinCount(GamesAgainst(d, k)) >= 1

\* a cleared contestant and an eliminated one, both finished
C3_Witness ==
  \E d, e \in DOMAIN all_results :
    /\ LadderDone(d) /\ LadderDone(e)
    /\ eliminated_at[d] = None
    /\ eliminated_at[e] # None
    /\ Refs(e)[Len(Refs(e))].games # << >>

(* ------------------------------ C4 ------------------------------------ *)

\* C4: every attempted opponent gets exactly games_per_pair games, played and
\* recorded in order, whatever the earlier games of the batch were: a closed
\* batch holds games_per_pair games, and an open batch with fewer can play on.
C4_FullBatch ==
  \A d \in DOMAIN all_results :
    \A i \in 1..Len(Refs(d)) :
      LET games == Refs(d)[i].games
      IN  /\ \A j \in 1..Len(games) : games[j].game_num = j
          /\ IF BatchOpen(d, i)
               THEN /\ Len(games) = game_num
                    /\ Len(games) <= games_per_pair
                    /\ (Len(games) < games_per_pair /\ ~aborted) => ENABLED PlayGame
                    /\ Len(games) < games_per_pair => ~ENABLED CheckWin
               ELSE Len(games) = games_per_pair

\* a closed batch of two games whose first game was a win and second an error
C4_Witness ==
  \E d \in DOMAIN all_results :
    \E i \in 1..Len(Refs(d)) :
      /\ ~BatchOpen(d, i)
      /\ Len(Refs(d)[i].games) = 2
      /\ Refs(d)[i].games[1].result = "win"
      /\ Refs(d)[i].games[2].result = "error"

(* ------------------------------ C5 ------------------------------------ *)

\* C5: a batch without a win (losses, draws, timeouts, errors) eliminates the
\* contestant at that opponent, and no game result stops the run: the rest of
\* the batch and the ladders of the remaining contestants are still played.
C5_NonWinEliminatesRunContinues ==
  /\ \A d \in DOMAIN all_results :
       \A i \in 1..Len(Refs(d)) :
         (~BatchOpen(d, i) /\ WinCount(Refs(d)[i].games) = 0) =>
           /\ eliminated_at[d] = anchors[i].name
           /\ i = Len(Refs(d))
  /\ (pc = "game_loop" /\ ~aborted /\ game_num < games_per_pair) => ENABLED PlayGame
  /\ (pc = "llm_loop" /\ ~aborted /\ llm_idx < Len(contestants)) => ENABLED StartLadder

\* the first contestant was eliminated by a timeout and an error or draw, and the
\* second contestant's ladder has a recorded game
C5_Witness ==
  /\ Len(contestants) = 2
  /\ llm_idx = 2
  /\ contestants[1].display # contestants[2].display
  /\ LET d == contestants[1].display
         e == contestants[2].display
     IN  /\ LadderDone(d)
         /\ eliminated_at[d] = anchors[2].name
         /\ Refs(d)[2].games[1].result \in {"timeout", "error", "draw"}
         /\ e \in DOMAIN all_results
         /\ Len(Refs(e)) >= 1
         /\ Refs(e)[1].games # << >>
         /\ Refs(e)[1].games[1].result \in {"timeout", "error"}

(* ------------------------------ C6 ------------------------------------ *)

\* the worked example: ladder [A(10), B(20), C(15)], one game per matchup, a
\* win against A in 400 ticks and then a loss against B
WorkedExample(d) ==
  /\ anchors = ExampleAnchors
  /\ games_per_pair = 1
  /\ LadderDone(d)
  /\ Len(Refs(d)) >= 2
  /\ Refs(d)[1].key = "ex.A" /\ Len(Refs(d)[1].games) = 1
  /\ Refs(d)[1].games[1].result = "win" /\ Refs(d)[1].games[1].ticks = 400
  /\ Refs(d)[2].key = "ex.B" /\ Len(Refs(d)[2].games) = 1
  /\ Refs(d)[2].games[1].result = "loss"

\* C6: in the worked example the contestant ends with score 12.0, eliminated
\* at B, and no recorded game against C.
C6_WorkedExample ==
  \A d \in DOMAIN all_results :
    WorkedExample(d) =>
      /\ benchmark_scores[d] = 120
      /\ eliminated_at[d] = "B"
      /\ GamesAgainst(d, 3) = << >>
      /\ Len(Refs(d)) = 2

C6_Witness ==
  \E d \in DOMAIN all_results : WorkedExample(d) /\ MAX_CYCLES = 1500

(* ------------------------------ C7 ------------------------------------ *)

\* the cycle ceiling of script p
Ceiling(p) == IF p = "benchmark_arena" THEN MAX_CYCLES ELSE tournament_MAX_CYCLES

\* C7: calculate_game_score maps win to 1.0 plus the speed bonus (+0.2 under
\* half the ceiling, else +0.1 under three quarters of it, else 0) capped at
\* 1.2, draw to 0.5 and loss, timeout and error to 0.0, so every score lies in
\* {0.0, 0.5} or in [1.0, 1.2].
C7_GameScoreTable ==
  call.fn = "calculate_game_score" =>
    /\ call.result = "win" =>
         /\ 2 * call.ticks < Ceiling(call.program) => call.ret = 12
         /\ (2 * call.ticks >= Ceiling(call.program)
               /\ 4 * call.ticks < 3 * Ceiling(call.program)) => call.ret = 11
         /\ 4 * call.ticks >= 3 * Ceiling(call.program) => call.ret = 10
    /\ call.result = "draw" => call.ret = 5
    /\ call.result \in {"loss", "timeout", "error"} => call.ret = 0
    /\ call.ret \in {0, 5} \cup 10..12

\* a win exactly at half the ceiling, which earns the smaller bonus
C7_Witness ==
  /\ call.fn = "calculate_game_score"
  /\ call.program = "tournament"
  /\ call.result = "win"
  /\ 2 * call.ticks = Ceiling(call.program)
  /\ call.ret = 11

(* ------------------------------ C8 ------------------------------------ *)

\* C8: for wins the score is non-increasing in ticks: of two calls with
\* t1 <= t2 the first scores at least as much as the second.
C8_WinScoreMonotone ==
  (/\ prev_call.fn = "calculate_game_score" /\ call.fn = "calculate_game_score"
   /\ prev_call.program = call.program
   /\ prev_call.result = "win" /\ call.result = "win"
   /\ prev_call.ticks <= call.ticks)
  => prev_call.ret >= call.ret

\* a fast win followed by a slow win, scored differently
C8_Witness ==
  /\ prev_call.fn = "calculate_game_score" /\ call.fn = "calculate_game_score"
  /\ prev_call.program = "benchmark_arena" /\ call.program = "benchmark_arena"
  /\ prev_call.result = "win" /\ call.result = "win"
  /\ prev_call.ticks < call.ticks
  /\ prev_call.ret = 12 /\ call.ret = 10

(* ------------------------------ C9 ------------------------------------ *)

WeightOf(cls) == anchors[CHOOSE i \in 1..Len(anchors) : anchors[i].cls = cls].weight

RECURSIVE SumOfScores(_, _)
SumOfScores(p, games) ==
  IF games = << >> THEN 0
  ELSE GameScore(p, Head(games).result, Head(games).ticks) + SumOfScores(p, Tail(games))

\* the sum over the attempted opponents of (average game score) x weight, as a
\* fraction of tenths
RECURSIVE AttemptedSum(_, _)
AttemptedSum(p, refs) ==
  IF refs = << >> THEN [num |-> 0, den |-> 1]
  ELSE LET rest == AttemptedSum(p, Tail(refs))
           games == Head(refs).games
       IN  IF games = << >> THEN rest
           ELSE [num |-> rest.num * Len(games)
                           + SumOfScores(p, games) * WeightOf(Head(refs).key) * rest.den,
                 den |-> rest.den * Len(games)]

LostGame == [result |-> "loss", ticks |-> MAX_CYCLES, error |-> "", game_num |-> 1,
             opponent |-> "unattempted"]

\* refs with an all-lost batch added for every opponent that was not attempted
RECURSIVE PadWithLosses(_, _)
PadWithLosses(refs, i) ==
  IF i > Len(anchors) THEN refs
  ELSE IF HasKey(refs, anchors[i].cls) THEN PadWithLosses(refs, i + 1)
  ELSE PadWithLosses(
         Append(refs, [key |-> anchors[i].cls,
                       games |-> [j \in 1..(IF games_per_pair = 0 THEN 1 ELSE games_per_pair)
                                    |-> LostGame]]),
         i + 1)

\* C9: the benchmark score of a ladder outcome is the sum over the attempted
\* opponents of (average game score) x weight, rounded to one decimal, and it
\* is the score of the same outcome with every un-attempted opponent lost.
C9_AggregateScore ==
  \A d \in DOMAIN all_results :
    LadderDone(d) =>
      LET s == AttemptedSum(program, Refs(d))
      IN  /\ benchmark_scores[d] = RoundHalfEven(s.num, s.den)
          /\ benchmark_scores[d] = BenchmarkScore(program, PadWithLosses(Refs(d), 1))

\* a finished ladder with two games per matchup whose games against one
\* opponent score differently, and with an opponent that was never attempted
C9_Witness ==
  \E d \in DOMAIN all_results :
    /\ LadderDone(d)
    /\ games_per_pair = 2
    /\ Len(Refs(d)) = 2
    /\ Len(Refs(d)) < Len(anchors)
    /\ Refs(d)[1].games[1].result = "win" /\ Refs(d)[1].games[1].ticks = 400
    /\ Refs(d)[1].games[2].result = "draw"
    /\ Refs(d)[2].games[1].result = "draw"
    /\ Refs(d)[2].games[2].result = "timeout"
    /\ benchmark_scores[d] = 135

(* ------------------------------ C10 ----------------------------------- *)

RECURSIVE AttemptedWeight(_)
AttemptedWeight(refs) ==
  IF refs = << >> THEN 0 ELSE WeightOf(Head(refs).key) + AttemptedWeight(Tail(refs))

\* C10: the benchmark score of every reachable ladder outcome is at most the
\* sum of the weights of the opponents the contestant attempted.
C10_ScoreWithinAttemptedWeight ==
  \A d \in DOMAIN all_results :
    LadderDone(d) => benchmark_scores[d] <= 10 * AttemptedWeight(Refs(d))

(* ------------------------------ C11 ----------------------------------- *)

\* the weights of the run's opponent table, summed
RECURSIVE WeightSum(_)
WeightSum(tbl) == IF tbl = << >> THEN 0 ELSE Head(tbl).weight + WeightSum(Tail(tbl))

SumOfWeights == WeightSum(anchors)

MaxMatches == 2

\* FINAL_TICK values the engine may print, below and above the ceiling
MatchTickValues == {400, 2000}

\* Engine behaviours with everything run_game could read of them: a process
\* killed at GAME_TIMEOUT has printed any output so far (a WINNER line too)
MatchRuns ==
  [kind : {"exited"}, returncode : {0, 1},
   winner_match : {<< >>, <<-1>>, <<0>>, <<1>>, <<2>>},
   tick_match : {<< >>} \cup {<<t>> : t \in MatchTickValues},
   player0_wins : BOOLEAN, player1_wins : BOOLEAN]
  \cup
  [kind : {"timeout"}, returncode : {0},
   winner_match : {<< >>, <<-1>>, <<0>>, <<1>>, <<2>>},
   tick_match : {<< >>} \cup {<<t>> : t \in MatchTickValues},
   player0_wins : BOOLEAN, player1_wins : BOOLEAN]
  \cup
  [kind : {"exception"}, returncode : {0},
   winner_match : {<< >>}, tick_match : {<< >>},
   player0_wins : {FALSE}, player1_wins : {FALSE}]

\* the keys update_config substitutes
RewrittenKeys == {"AI1", "AI2", "max_cycles", "headless"}

\* cfg without the lines of the keys in drop
WithoutKeys(cfg, drop) == SelectSeq(cfg, LAMBDA ln : ln.key \notin drop)

\* Contents resources/config.properties may have when run_game is called: the
\* file is not written by the scripts except through update_config, so a key
\* may have no line, be commented out, or have two lines
ConfigFiles ==
  {WithoutKeys(InitialConfig, drop) : drop \in SUBSET RewrittenKeys}
  \cup
  {InitialConfig \o << [key |-> "#AI1", value |-> "ai.PassiveAI"],
                      [key |-> "AI1", value |-> "ai.PassiveAI"] >>}

\* the (ai1, ai2) arguments of run_game: a ladder game and a head-to-head game
MatchPairs ==
  {<< ClassNames[1], ANCHORS[1].cls >>, << ClassNames[1], ClassNames[2] >>}

NoRun ==
  [kind |-> "none", returncode |-> 0, winner_match |-> << >>, tick_match |-> << >>,
   player0_wins |-> FALSE, player1_wins |-> FALSE]

NoResult == [result |-> "none", ticks |-> 0, error |-> ""]

\* subprocess.run that leaves the child alive when the timeout expires
ProcessesAfter_TimeoutLeavesChild(procs, pid, run) ==
  IF run.kind = "timeout" THEN procs ELSE {p \in procs : p.pid # pid}

\* The engine processes alive once subprocess.run has returned or raised: it
\* returns after the child has exited, and kills and reaps the child before
\* it raises TimeoutExpired or any other exception
ProcessesAfter(procs, pid, run) == {p \in procs : p.pid # pid}

MatchInit ==
  /\ program \in Programs
  /\ anchors = (IF program = "benchmark_arena" THEN ANCHORS ELSE tournament_ANCHORS)
  /\ games_per_pair = 1
  /\ contestants = << [cls |-> ClassNames[1], display |-> ModelNames[1]],
                      [cls |-> ClassNames[2], display |-> ModelNames[2]] >>
  /\ pc = "run_game"
  /\ aborted = FALSE
  /\ llm_idx = 0
  /\ anchor_idx = 0
  /\ game_num = 0
  /\ eliminated = FALSE
  /\ all_results = EmptyDict
  /\ eliminated_at = EmptyDict
  /\ benchmark_scores = EmptyDict
  /\ config \in ConfigFiles
  /\ call = NoCall
  /\ prev_call = NoCall
  /\ skip_h2h = FALSE
  /\ result_files = << >>
  /\ h2h_results = << >>
  /\ files = {}
  /\ running = {}
  /\ engine_log = << >>

matchFrame == << program, anchors, games_per_pair, contestants, llm_idx, anchor_idx,
                 game_num, eliminated, all_results, eliminated_at, benchmark_scores,
                 skip_h2h, result_files, h2h_results, files >>

\* what is kept of the match before the current one: the dict it returned
MatchSummary(c) ==
  IF c.fn = "run_game"
    THEN [fn |-> "run_game", program |-> c.program, result |-> c.ret.result,
          ticks |-> c.ret.ticks, ret |-> c.pid]
    ELSE c

\* run_game is entered: update_config, then subprocess.run starts the engine,
\* which reads the artifact
StartMatch ==
  /\ pc = "run_game" /\ ~aborted
  /\ Len(engine_log) < MaxMatches
  /\ \E pair \in MatchPairs :
       LET pid == Len(engine_log) + 1
           written == UpdateConfig(program, config, pair[1], pair[2])
       IN  /\ config' = written
           /\ running' = running \cup {[pid |-> pid, config |-> written]}
           /\ engine_log' = Append(engine_log,
                                   Invocation(pair[1], pair[2], << "match", pid, 0, 0 >>))
           /\ call' = [fn |-> "run_game", program |-> program, ai1 |-> pair[1],
                       ai2 |-> pair[2], before |-> config, pid |-> pid,
                       run |-> NoRun, ret |-> NoResult]
  /\ prev_call' = MatchSummary(call)
  /\ pc' = "subprocess.run"
  /\ UNCHANGED << matchFrame, aborted >>

\* subprocess.run returns or raises, and run_game returns its dict
EngineReturns ==
  /\ pc = "subprocess.run"
  /\ \E run \in MatchRuns :
       /\ running' = ProcessesAfter(running, call.pid, run)
       /\ call' = [call EXCEPT !.run = run, !.ret = RunGame(program, run)]
  /\ pc' = "run_game"
  /\ UNCHANGED << matchFrame, aborted, config, prev_call, engine_log >>

\* update_config raises: the exception leaves run_game and the caller
MatchConfigFails ==
  /\ pc = "run_game" /\ ~aborted
  /\ Len(engine_log) < MaxMatches
  /\ aborted' = TRUE
  /\ config' \in FailedWrites(config)
  /\ UNCHANGED << matchFrame, pc, call, prev_call, running, engine_log >>

MatchNext ==
  \/ StartMatch
  \/ EngineReturns
  \/ MatchConfigFails

MatchSpec == MatchInit /\ [][MatchNext]_vars

\* run_game has returned from the call held in call
Returned == call.fn = "run_game" /\ pc = "run_game"

(* ------------------------------ C12 ----------------------------------- *)

\* the engine process terminated abnormally: it exited with a non-zero
\* return code (a crash, an uncaught Java exception), or subprocess.run raised
AbnormalTermination(run) ==
  \/ run.kind = "exception"
  \/ run.kind = "exited" /\ run.returncode # 0

\* C12: whenever the engine process terminates abnormally, run_game returns
\* the outcome error with a diagnostic and the game is scored 0.0.
C12_AbnormalExitIsError ==
  (Returned /\ AbnormalTermination(call.run)) =>
    /\ call.ret.result = "error"
    /\ call.ret.error # ""
    /\ GameScore(program, call.ret.result, call.ret.ticks) = 0

(* ------------------------------ C13 ----------------------------------- *)

\* C13: whenever a match exceeds GAME_TIMEOUT, run_game returns the outcome
\* timeout with ticks equal to MAX_CYCLES, whatever the process had printed,
\* and the game is scored 0.0.
C13_TimeoutAtCeiling ==
  (Returned /\ call.run.kind = "timeout") =>
    /\ call.ret.result = "timeout"
    /\ call.ret.ticks = Ceiling(program)
    /\ GameScore(program, call.ret.result, call.ret.ticks) = 0

\* a match timed out after the engine had printed WINNER: 0 and FINAL_TICK: 400
C13_Witness ==
  /\ Returned
  /\ call.run.kind = "timeout"
  /\ call.run.winner_match = <<0>>
  /\ call.run.tick_match = <<400>>
  /\ call.ret.result = "timeout"

(* ------------------------------ C14 ----------------------------------- *)

\* the outcome the priority chain gives an output
ChainOutcome(run) ==
  IF run.winner_match # << >>
    THEN (IF run.winner_match[1] = 0 THEN "win"
          ELSE IF run.winner_match[1] = 1 THEN "loss"
          ELSE "draw")
  ELSE IF run.player0_wins THEN "win"
  ELSE IF run.player1_wins THEN "loss"
  ELSE "draw"

\* C14: for every output of an engine that exited, the outcome is decided by
\* the WINNER sentinel alone when one is present (0 win, 1 loss, any other
\* value draw), by the "Player N wins" phrase only when no sentinel is
\* present, and is draw when neither is present; the parse always yields one
\* of win, loss, draw.
C14_PriorityChain ==
  (Returned /\ call.run.kind = "exited") =>
    /\ call.ret.result = ChainOutcome(call.run)
    /\ call.ret.result \in {"win", "loss", "draw"}
    /\ call.ret.error = ""

\* the output held WINNER: 1 and the phrase "Player 0 wins": the game is a loss
C14_Witness ==
  /\ Returned
  /\ call.run.kind = "exited"
  /\ call.run.winner_match = <<1>>
  /\ call.run.player0_wins
  /\ ~call.run.player1_wins
  /\ call.ret.result = "loss"

(* ------------------------------ C15 ----------------------------------- *)

\* the engine invocations made for a slot
InvocationsOf(slot) == {i \in 1..Len(engine_log) : engine_log[i].slot = slot}

\* C15: in every reachable state no slot has been invoked twice; for the
\* ladder being played, a slot has exactly one invocation if its game is
\* recorded and none otherwise; and every recorded game is the one MatchResult
\* of its slot, with an outcome among win, loss, draw, timeout, error.
C15_OneInvocationPerSlot ==
  /\ \A i, j \in 1..Len(engine_log) :
       i < j => engine_log[i].slot # engine_log[j].slot
  /\ InLadder =>
       \A k \in 1..Len(anchors) :
         LET games == GamesAgainst(llm_name, k)
         IN  /\ Len(games) <= games_per_pair
             /\ \A g \in 1..games_per_pair :
                  Cardinality(InvocationsOf(LadderSlot(llm_idx, k, g))) =
                    (IF g <= Len(games) THEN 1 ELSE 0)
             /\ \A g \in 1..Len(games) :
                  /\ games[g].game_num = g
                  /\ games[g].result \in Outcomes
  /\ \A g \in 1..Len(h2h_results) : h2h_results[g].result \in Outcomes

\* a game timed out, and the one engine invocation after it was for the next
\* slot of the batch
C15_Witness ==
  /\ pc = "game_loop"
  /\ games_per_pair = 2
  /\ game_num = 2
  /\ CurrentGames[1].result = "timeout"
  /\ Len(engine_log) = 2
  /\ engine_log[2].slot = LadderSlot(llm_idx, anchor_idx, 2)

(* ------------------------------ C16 ----------------------------------- *)

\* the file holds the line key=value
Holds(cfg, key, value) ==
  \E i \in 1..Len(cfg) : cfg[i] = [key |-> key, value |-> value]

\* C16: once update_config(a, b) has rewritten the artifact, the file holds
\* AI1=a, AI2=b, max_cycles=<ceiling> and headless=true, and every line of
\* another key is as it was before the call.
C16_RewritesFourKeys ==
  pc = "subprocess.run" =>
    /\ Holds(config, "AI1", call.ai1)
    /\ Holds(config, "AI2", call.ai2)
    /\ Holds(config, "max_cycles", ToString(Ceiling(program)))
    /\ Holds(config, "headless", "true")
    /\ Len(config) = Len(call.before)
    /\ \A i \in 1..Len(call.before) :
         call.before[i].key \notin RewrittenKeys => config[i] = call.before[i]

\* the value update_config gives a key in the call held in call
NewValue(key) ==
  IF key = "AI1" THEN call.ai1
  ELSE IF key = "AI2" THEN call.ai2
  ELSE IF key = "max_cycles" THEN ToString(Ceiling(program))
  ELSE "true"

HasLine(cfg, key) == \E i \in 1..Len(cfg) : cfg[i].key = key

\* C16 (amended): once update_config(a, b) has rewritten the artifact, the
\* file has the lines it had before, in the same order; each line of one of
\* the four keys reads AI1=a, AI2=b, max_cycles=<ceiling>, headless=true
\* respectively and every other line is unchanged; no line is added, so the
\* file holds the new value of a key exactly when it had a line for that key.
C16_RewritesPresentKeys ==
  pc = "subprocess.run" =>
    /\ Len(config) = Len(call.before)
    /\ \A i \in 1..Len(call.before) :
         config[i] = (IF call.before[i].key \in RewrittenKeys
                        THEN [key |-> call.before[i].key,
                              value |-> NewValue(call.before[i].key)]
                        ELSE call.before[i])
    /\ \A key \in RewrittenKeys :
         Holds(config, key, NewValue(key)) <=> HasLine(call.before, key)

\* update_config has run on a file with no headless line: AI1, AI2 and
\* max_cycles are rewritten and the file still has no headless line
C16_Witness ==
  /\ pc = "subprocess.run"
  /\ ~HasLine(call.before, "headless")
  /\ Holds(config, "AI1", call.ai1)
  /\ Holds(config, "AI2", call.ai2)
  /\ Holds(config, "max_cycles", ToString(Ceiling(program)))
  /\ ~HasLine(config, "headless")
  /\ HasLine(config, "launch_mode")

(* ------------------------------ C17 ----------------------------------- *)

\* C17: in every reachable state at most one engine process is alive, the
\* artifact still holds what was written for the match of a live process, and
\* no process is alive whenever run_game can be entered (so no later match's
\* write can overwrite the artifact under a running engine), whether the
\* earlier match ended by exit, timeout or exception.
C17_OneMatchAtATime ==
  /\ Cardinality(running) <= 1
  /\ \A p \in running : p.config = config /\ p.pid = Len(engine_log)
  /\ pc = "run_game" => running = {}

\* the second match's engine runs after the first match ended by timeout
C17_Witness ==
  /\ pc = "subprocess.run"
  /\ call.pid = 2
  /\ prev_call.fn = "run_game"
  /\ prev_call.result = "timeout"
  /\ call.ai2 # engine_log[1].ai2
  /\ running = {[pid |-> 2, config |-> config]}

(* ------------------------------ C18 ----------------------------------- *)

\* C18: in every reachable state in which update_config has failed for a
\* match, the run has stopped for good (no ladder game, no head-to-head game
\* and no other step of run_tournament can follow) and none of its output
\* files (run record, leaderboard, markdown) has been written.
C18_ConfigFailureIsFatal ==
  aborted =>
    /\ files = {}
    /\ ~ENABLED PlayGame
    /\ ~ENABLED PlayH2H
    /\ ~ENABLED SaveResults
    /\ ~ENABLED Next

\* update_config failed for the third match of a run, in the ladder
C18_Witness ==
  /\ aborted
  /\ pc = "game_loop"
  /\ Len(engine_log) = 2
  /\ files = {}

(* ----------------------- the leaderboard merge ------------------------ *)

\* the run records the results directory holds in the merge specification
MaxRecords == 3

\* "version" values of run records, in ascending order of Python's str order
Versions == << "1.0", "2.0" >>

\* "date" values (datetime.isoformat()), in ascending order of str order
Dates ==
  << "2026-01-10T10:00:04.000001", "2026-01-10T10:00:41.507113",
     "2026-02-01T09:30:00.000002" >>

\* a > b on two str values of the ascending list seq
StrGreater(seq, a, b) ==
  (CHOOSE i \in 1..Len(seq) : seq[i] = a) > (CHOOSE i \in 1..Len(seq) : seq[i] = b)

\* "benchmark_scores" dicts of run records, in item order (scores in tenths)
ScoreDicts ==
  << << [model |-> ModelNames[1], score |-> 550] >>,
     << [model |-> ModelNames[1], score |-> 620] >>,
     << [model |-> ModelNames[2], score |-> 550] >>,
     << [model |-> ModelNames[1], score |-> 550], [model |-> ModelNames[2], score |-> 550] >>,
     << [model |-> ModelNames[2], score |-> 550], [model |-> ModelNames[1], score |-> 620] >> >>

\* the run records a benchmark_*.json file may hold
RunRecords ==
  [version : {Versions[i] : i \in 1..Len(Versions)},
   date : {Dates[1], Dates[Len(Dates)]},
   benchmark_scores : {ScoreDicts[i] : i \in 1..Len(ScoreDicts)}]

\* a number that orders run records by content
RecordCode(r) ==
  ((CHOOSE i \in 1..Len(Versions) : Versions[i] = r.version) * 10
   + (CHOOSE i \in 1..Len(Dates) : Dates[i] = r.date)) * 10
  + (CHOOSE i \in 1..Len(ScoreDicts) : ScoreDicts[i] = r.benchmark_scores)

\* The contents of the results directory: the i-th element is the file whose
\* name is the i-th in sorted order.  File names carry no information the
\* merge reads, so only one naming of each collection of contents is kept
ResultDirs ==
  UNION {{recs \in [1..n -> RunRecords] :
            \A i \in 1..(n - 1) : RecordCode(recs[i]) <= RecordCode(recs[i + 1])} :
         n \in 1..MaxRecords}

\* data.get("format", "full"): the arena writes "single-elimination" since 2.0
FormatOf(r) == IF r.version = "2.0" THEN "single-elimination" ELSE "full"

\* for model_name, score in scores.items(): the entries of the i-th file
EntriesOf(recs, i) ==
  [k \in 1..Len(recs[i].benchmark_scores) |->
     [model |-> recs[i].benchmark_scores[k].model,
      score |-> recs[i].benchmark_scores[k].score,
      version |-> recs[i].version,
      format |-> FormatOf(recs[i]),
      date |-> recs[i].date,
      source_file |-> i]]

RECURSIVE LoadFrom(_, _, _)
LoadFrom(recs, order, k) ==
  IF k > Len(recs) THEN << >>
  ELSE EntriesOf(recs, order[k]) \o LoadFrom(recs, order, k + 1)

\* load_all_results with the files discovered in the given order
load_all_results(recs, order) == LoadFrom(recs, order, 1)

\* files = sorted(glob.glob(pattern)): the order the code discovers files in
SortedOrder(n) == [i \in 1..n |-> i]

\* the replacement test taking the score alone
Better_ScoreOnly(entry, prev) == entry["score"] > prev["score"]

\* the replacement test of find_best_per_model
Better(entry, prev) ==
  \/ entry["score"] > prev["score"]
  \/ entry["score"] = prev["score"] /\ StrGreater(Versions, entry["version"], prev["version"])
  \/ /\ entry["score"] = prev["score"]
     /\ entry["version"] = prev["version"]
     /\ StrGreater(Dates, entry["date"], prev["date"])

\* the loop of find_best_per_model over a dict held in insertion order
RECURSIVE FindBestFrom(_, _)
FindBestFrom(entries, best) ==
  IF entries = << >> THEN best
  ELSE LET entry == Head(entries)
       IN  FindBestFrom(Tail(entries),
             IF ~\E i \in 1..Len(best) : best[i].model = entry.model
               THEN Append(best, entry)
               ELSE [i \in 1..Len(best) |->
                       IF best[i].model = entry.model /\ Better(entry, best[i])
                         THEN entry ELSE best[i]])

find_best_per_model(entries) == FindBestFrom(entries, << >>)

\* sorted(..., key=score, reverse=True): stable, equal scores keep their order
SortedByScore(seq) ==
  LET Rank(i) ==
        Cardinality({j \in 1..Len(seq) :
                       \/ seq[j].score > seq[i].score
                       \/ seq[j].score = seq[i].score /\ j < i}) + 1
  IN  [k \in 1..Len(seq) |-> seq[CHOOSE i \in 1..Len(seq) : Rank(i) = k]]

\* the "entries" list generate_leaderboard_json writes
generate_leaderboard_json(best_per_model) == SortedByScore(best_per_model)

\* the replacement test that lets the last entry seen win
SiteBetter_LastSeen(entry, prev) == TRUE

\* the replacement test of build_leaderboard
SiteBetter(entry, prev) == entry["score"] > prev["score"]

RECURSIVE SiteBestFrom(_, _)
SiteBestFrom(entries, best) ==
  IF entries = << >> THEN best
  ELSE LET entry == Head(entries)
       IN  SiteBestFrom(Tail(entries),
             IF ~\E i \in 1..Len(best) : best[i].model = entry.model
               THEN Append(best, entry)
               ELSE [i \in 1..Len(best) |->
                       IF best[i].model = entry.model /\ SiteBetter(entry, best[i])
                         THEN entry ELSE best[i]])

\* build_leaderboard of update_site_data.py (display_name is the entry's model)
build_leaderboard(entries) == SortedByScore(SiteBestFrom(entries, << >>))

MergeInit ==
  /\ program = "generate_leaderboard"
  /\ anchors = ANCHORS
  /\ games_per_pair = 1
  /\ contestants = << >>
  /\ pc = "merge"
  /\ aborted = FALSE
  /\ llm_idx = 0
  /\ anchor_idx = 0
  /\ game_num = 0
  /\ eliminated = FALSE
  /\ all_results = EmptyDict
  /\ eliminated_at = EmptyDict
  /\ benchmark_scores = EmptyDict
  /\ config = InitialConfig
  /\ call = NoCall
  /\ prev_call = NoCall
  /\ skip_h2h = FALSE
  /\ result_files \in ResultDirs
  /\ h2h_results = << >>
  /\ files = {}
  /\ running = {}
  /\ engine_log = << >>

mergeFrame == << program, anchors, games_per_pair, contestants, aborted, llm_idx,
                 anchor_idx, game_num, eliminated, all_results, eliminated_at,
                 benchmark_scores, config, prev_call, skip_h2h, result_files,
                 h2h_results, files, running, engine_log >>

\* the orders in which n files can be discovered
DiscoveryOrders(n) == Permutations(1..n)

\* main() of generate_leaderboard.py, the files discovered in some order
GenerateLeaderboard ==
  /\ pc = "merge"
  /\ \E order \in DiscoveryOrders(Len(result_files)) :
       LET entries == load_all_results(result_files, order)
           best == find_best_per_model(entries)
       IN  call' = [fn |-> "generate_leaderboard", order |-> order,
                    entries |-> entries, best |-> best,
                    leaderboard |-> generate_leaderboard_json(best)]
  /\ pc' = "merged"
  /\ UNCHANGED mergeFrame

\* build_leaderboard of update_site_data.py on the same entries
UpdateSiteData ==
  /\ pc = "merge"
  /\ \E order \in DiscoveryOrders(Len(result_files)) :
       LET entries == load_all_results(result_files, order)
       IN  call' = [fn |-> "build_leaderboard", order |-> order,
                    entries |-> entries, best |-> SiteBestFrom(entries, << >>),
                    leaderboard |-> build_leaderboard(entries)]
  /\ pc' = "merged"
  /\ UNCHANGED mergeFrame

\* the script has ended; it can be run again on the same directory
ScriptExits ==
  /\ pc = "merged"
  /\ pc' = "merge"
  /\ call' = NoCall
  /\ UNCHANGED mergeFrame

MergeNext ==
  \/ GenerateLeaderboard
  \/ UpdateSiteData
  \/ ScriptExits

MergeSpec == MergeInit /\ [][MergeNext]_vars

(* ------------------------------ C19 ----------------------------------- *)

\* the key of the total order: score, then schema version, then timestamp
KeyOf(e) ==
  << e.score,
     CHOOSE i \in 1..Len(Versions) : Versions[i] = e.version,
     CHOOSE i \in 1..Len(Dates) : Dates[i] = e.date >>

\* key a is strictly above key b, compared top-down
KeyAbove(a, b) ==
  \/ a[1] > b[1]
  \/ a[1] = b[1] /\ a[2] > b[2]
  \/ a[1] = b[1] /\ a[2] = b[2] /\ a[3] > b[3]

EntriesOfModel(entries, m) == {i \in 1..Len(entries) : entries[i].model = m}

\* C19: after find_best_per_model, every model with an entry has exactly one
\* selected entry, it is one of the model's entries, and no entry of the
\* model is above it in the order (score, then version, then timestamp).
C19_SelectsMaximal ==
  call.fn = "generate_leaderboard" =>
    /\ \A i, j \in 1..Len(call.best) :
         call.best[i].model = call.best[j].model => i = j
    /\ \A i \in 1..Len(call.entries) :
         \E b \in 1..Len(call.best) :
           /\ call.best[b].model = call.entries[i].model
           /\ ~KeyAbove(KeyOf(call.entries[i]), KeyOf(call.best[b]))
    /\ \A b \in 1..Len(call.best) :
         \E i \in 1..Len(call.entries) : call.entries[i] = call.best[b]

\* a 62.0 single-elimination run of a later date is selected over a 55.0
\* full-ladder run, and a second model's tie on score is decided by version
C19_Witness ==
  /\ call.fn = "generate_leaderboard"
  /\ \E i, j \in 1..Len(call.entries), b \in 1..Len(call.best) :
       /\ call.entries[i].model = call.entries[j].model
       /\ call.entries[i].score = 550 /\ call.entries[i].format = "full"
       /\ call.entries[j].score = 620 /\ call.entries[j].format = "single-elimination"
       /\ StrGreater(Dates, call.entries[j].date, call.entries[i].date)
       /\ call.best[b] = call.entries[j]
  /\ \E i, j \in 1..Len(call.entries), b \in 1..Len(call.best) :
       /\ i < j
       /\ call.entries[i].model = call.entries[j].model
       /\ call.entries[i].score = call.entries[j].score
       /\ call.entries[i].version = "2.0" /\ call.entries[j].version = "1.0"
       /\ call.best[b] = call.entries[i]

(* ------------------------------ C20 ----------------------------------- *)

\* the merge of the same run records discovered in sorted order
SortedEntries == load_all_results(result_files, SortedOrder(Len(result_files)))

\* the selected entry of model m in an insertion-ordered selection
SelectedOf(best, m) == best[CHOOSE i \in 1..Len(best) : best[i].model = m]

ModelsOf(best) == {best[i].model : i \in 1..Len(best)}

\* two selections pick the same entry for the same models
SameSelection(a, b) ==
  /\ ModelsOf(a) = ModelsOf(b)
  /\ \A m \in ModelsOf(a) : SelectedOf(a, m) = SelectedOf(b, m)

ScoresOf(board) == [k \in 1..Len(board) |-> board[k].score]

ProbeBatches ==
  << << >>,
     << [result |-> "win", ticks |-> 400] >>,
     << [result |-> "win", ticks |-> 1000], [result |-> "draw", ticks |-> 1500] >>,
     << [result |-> "loss", ticks |-> 900], [result |-> "timeout", ticks |-> 1500],
        [result |-> "win", ticks |-> 1400] >> >>

\* the results dict that holds batch choice[i] for the i-th opponent (0: no key)
ProbeResultsOf(choice) ==
  LET RECURSIVE Build(_)
      Build(i) ==
        IF i = 0 THEN << >>
        ELSE IF choice[i] = 0 THEN Build(i - 1)
        ELSE Append(Build(i - 1), [key |-> ANCHORS[i].cls, games |-> ProbeBatches[choice[i]]])
  IN  Build(Len(ANCHORS))

\* results dicts keyed by the opponent classes both scripts know
ProbeResults ==
  {ProbeResultsOf(choice) : choice \in [1..Len(ANCHORS) -> 0..Len(ProbeBatches)]}

CompareInit ==
  /\ program = "benchmark_arena"
  /\ anchors = ANCHORS
  /\ games_per_pair = 1
  /\ contestants = << [cls |-> ClassNames[1], display |-> ModelNames[1]] >>
  /\ pc = "compare"
  /\ aborted = FALSE
  /\ llm_idx = 0
  /\ anchor_idx = 0
  /\ game_num = 0
  /\ eliminated = FALSE
  /\ \E r \in ProbeResults :
       all_results = [d \in {ModelNames[1]} |-> [reference_games |-> r]]
  /\ eliminated_at = EmptyDict
  /\ benchmark_scores = EmptyDict
  /\ config = InitialConfig
  /\ call = NoCall
  /\ prev_call = NoCall
  /\ skip_h2h = FALSE
  /\ result_files = << >>
  /\ h2h_results = << >>
  /\ files = {}
  /\ running = {}
  /\ engine_log = << >>

\* both scripts' score functions called on one game and one results dict
CompareScores ==
  /\ pc = "compare"
  /\ \E result \in Outcomes, ticks \in ProbeTicks :
       LET llm_results == all_results[ModelNames[1]].reference_games
       IN  /\ call' = [fn |-> "benchmark_arena", program |-> "benchmark_arena",
                       result |-> result, ticks |-> ticks,
                       ret |-> calculate_game_score(result, ticks),
                       total |-> BenchmarkScoreOver(ANCHORS, llm_results)]
           /\ prev_call' = [fn |-> "tournament", program |-> "tournament",
                            result |-> result, ticks |-> ticks,
                            ret |-> tournament_calculate_game_score(result, ticks),
                            total |-> tournament_BenchmarkScoreOver(tournament_ANCHORS,
                                                                    llm_results)]
  /\ pc' = "compared"
  /\ UNCHANGED << program, anchors, games_per_pair, contestants, aborted, llm_idx,
                  anchor_idx, game_num, eliminated, all_results, eliminated_at,
                  benchmark_scores, config, extVars >>

CompareNext == CompareScores

CompareSpec == CompareInit /\ [][CompareNext]_vars

(* ------------------------------ C27 ----------------------------------- *)

\* C27: for every outcome and tick count, and for every results dict, the
\* tournament script's calculate_game_score and calculate_benchmark_score
\* return what the arena's return.
C27_SameScoring ==
  (call.fn = "benchmark_arena" /\ prev_call.fn = "tournament") =>
    /\ call.result = prev_call.result /\ call.ticks = prev_call.ticks
    /\ call.ret = prev_call.ret
    /\ call.total = prev_call.total

\* both scripts scored a win in 749 ticks 1.2 and a results dict with a
\* three-game batch, an absent opponent and a two-game batch alike
C27_Witness ==
  /\ call.fn = "benchmark_arena" /\ prev_call.fn = "tournament"
  /\ call.result = "win" /\ call.ticks = 749
  /\ call.ret = 12 /\ prev_call.ret = 12
  /\ LET r == all_results[ModelNames[1]].reference_games
     IN  /\ Len(r) = 3
         /\ r[1].key = ANCHORS[1].cls /\ Len(r[1].games) = 3
         /\ r[2].key = ANCHORS[3].cls /\ Len(r[2].games) = 2
         /\ r[3].key = ANCHORS[6].cls /\ Len(r[3].games) = 1
  /\ call.total > 0
  /\ call.total = prev_call.total

(* ------------------------------ C28 ----------------------------------- *)

\* the games recorded under display name d, over all its opponents
GamesRecorded(d) ==
  LET RECURSIVE Count(_)
      Count(refs) == IF refs = << >> THEN 0 ELSE Len(Head(refs).games) + Count(Tail(refs))
  IN  Count(Refs(d))

\* C28: once every ladder of a run has been played, the result store holds as
\* many ladder outcomes (recorded games, elimination marker, score) as the run
\* has contestants, and the games of every contestant are all still recorded:
\* the store holds one game per ladder invocation of the engine.
C28_OneOutcomePerContestant ==
  (pc \in {"phase2", "done"} /\ ~aborted) =>
    /\ Cardinality(DOMAIN all_results) = Len(contestants)
    /\ Cardinality(DOMAIN eliminated_at) = Len(contestants)
    /\ Cardinality(DOMAIN benchmark_scores) = Len(contestants)
    /\ \A l \in 1..Len(contestants) :
         GamesRecorded(contestants[l].display) =
           Cardinality({i \in 1..Len(engine_log) :
                          engine_log[i].slot[1] = "ladder" /\ engine_log[i].slot[2] = l})

(* ------------------- the ladders under fair scheduling ---------------- *)

\* games per matchup of the runs whose termination is checked
LadderGames == 1

LadderInit == Init /\ games_per_pair <= LadderGames

\* run_tournament is one sequential thread: a step that can be taken is
\* taken, and run_game returns (GAME_TIMEOUT bounds subprocess.run).  A
\* failure of update_config is possible at every match but not bound to happen.
LadderSpec ==
  /\ LadderInit
  /\ [][Next]_vars
  /\ WF_vars(StartLadder)
  /\ WF_vars(BeginBatch)
  /\ WF_vars(PlayGame)
  /\ WF_vars(CheckWin)
  /\ WF_vars(FinishLadder)
  /\ WF_vars(EndPhase1)
  /\ WF_vars(PlayH2H)
  /\ WF_vars(SaveResults)

(* ------------------------------ C29 ----------------------------------- *)

\* the ladder invocations of the engine made for the l-th contestant
LadderInvocations(l) ==
  {i \in 1..Len(engine_log) :
     engine_log[i].slot[1] = "ladder" /\ engine_log[i].slot[2] = l}

\* the l-th contestant's ladder is being played
LadderRunning(l) == llm_idx = l /\ InLadder

\* the l-th contestant's ladder has been played to its end
LadderEnded(l) == llm_idx > l \/ (llm_idx = l /\ ~InLadder)

\* the ladder recorded under d ended Cleared: every opponent was played and won
Cleared(d) ==
  /\ eliminated_at[d] = None
  /\ Len(Refs(d)) = Len(anchors)
  /\ \A k \in 1..Len(anchors) : WinCount(Refs(d)[k].games) > 0

\* the ladder recorded under d ended Eliminated at its last attempted opponent
EliminatedAt(d) ==
  /\ eliminated_at[d] # None
  /\ Refs(d) # << >>
  /\ eliminated_at[d] = anchors[Len(Refs(d))].name
  /\ WinCount(Refs(d)[Len(Refs(d))].games) = 0

\* what holds of the ladders in every state
LadderSafety ==
  /\ \A l \in 1..Len(contestants) :
       /\ Cardinality(LadderInvocations(l)) <= Len(anchors) * games_per_pair
       /\ l > llm_idx => LadderInvocations(l) = {}
  /\ \A i, j \in 1..Len(engine_log) :
       (i < j /\ engine_log[j].slot[1] = "ladder") =>
         /\ engine_log[i].slot[1] = "ladder"
         /\ engine_log[i].slot[2] <= engine_log[j].slot[2]
  /\ (llm_idx >= 1 /\ ~InLadder /\ ~aborted) =>
       LET d == contestants[llm_idx].display
       IN  /\ d \in DOMAIN benchmark_scores
           /\ Cleared(d) \/ EliminatedAt(d)
           /\ ~(Cleared(d) /\ EliminatedAt(d))

\* C29: in every run in which every match returns a result, the ladder of
\* each contestant eventually ends (unless update_config fails and aborts the
\* run); a contestant plays at most (number of opponents x games_per_pair)
\* ladder games; a ladder that has ended is Cleared or Eliminated at its last
\* opponent and not both; and no ladder game of a contestant follows a ladder
\* game of a later contestant or a head-to-head game.
C29_LadderTerminates ==
  /\ []LadderSafety
  /\ \A l \in 1..MaxContestants :
       (LadderRunning(l) ~> (LadderEnded(l) \/ aborted))

\* the first ladder ended Cleared and the second ended Eliminated
C29_Witness ==
  /\ pc = "phase2" /\ ~aborted
  /\ Len(contestants) = 2
  /\ contestants[1].display # contestants[2].display
  /\ Cleared(contestants[1].display)
  /\ EliminatedAt(contestants[2].display)
  /\ Cardinality(LadderInvocations(1)) = Len(anchors) * games_per_pair
  /\ games_per_pair = 1

(* ------------- the results directory over runs and merges ------------- *)

\* now.strftime('%Y-%m-%d_%H-%M') at each instant of Dates
Timestamps == << "2026-01-10_10-00", "2026-01-10_10-00", "2026-02-01_09-30" >>

\* results_file = f"{RESULTS_DIR}/benchmark_{timestamp}.json", by timestamp
ResultsFileNames ==
  [ts \in {Timestamps[i] : i \in 1..Len(Timestamps)} |->
     IF ts = "2026-01-10_10-00" THEN "benchmark_2026-01-10_10-00.json"
     ELSE "benchmark_2026-02-01_09-30.json"]

\* results_file of a run that saves at the t-th instant
results_file(t) == ResultsFileNames[Timestamps[t]]

\* the results_file names there can be, in sorted order
SortedResultsFiles ==
  << "benchmark_2026-01-10_10-00.json", "benchmark_2026-02-01_09-30.json" >>

leaderboard_file == "leaderboard.json"

\* sorted(glob.glob("benchmark_*.json")) in a directory holding the names fs
GlobResults(fs) == SelectSeq(SortedResultsFiles, LAMBDA n : n \in fs)

\* the run records of the directory, in the order of GlobResults
RecordsOf(fs, contents) ==
  [i \in 1..Len(GlobResults(fs)) |-> contents[GlobResults(fs)[i]]]

\* the entries a run appends to the historical leaderboard
AppendedEntries(scores, t) ==
  [k \in 1..Len(scores) |->
     [model |-> scores[k].model, score |-> scores[k].score,
      version |-> "2.0", date |-> Dates[t]]]

\* the entries of leaderboard.json as a run reads them
ReadLeaderboard(fs, contents) ==
  IF leaderboard_file \in fs THEN contents[leaderboard_file].entries ELSE << >>

\* an empty RESULTS_DIR; call.now is the instant of the last clock reading
DiskInit ==
  /\ program = "benchmark_arena"
  /\ anchors = ANCHORS
  /\ games_per_pair = 1
  /\ contestants = << >>
  /\ pc = "shell"
  /\ aborted = FALSE
  /\ llm_idx = 0
  /\ anchor_idx = 0
  /\ game_num = 0
  /\ eliminated = FALSE
  /\ all_results = EmptyDict
  /\ eliminated_at = EmptyDict
  /\ benchmark_scores = EmptyDict
  /\ config = InitialConfig
  /\ call = [fn |-> "none", now |-> 0, wrote |-> {}]
  /\ prev_call = NoCall
  /\ skip_h2h = FALSE
  /\ result_files = EmptyDict
  /\ h2h_results = << >>
  /\ files = {}
  /\ running = {}
  /\ engine_log = << >>

diskFrame == << program, anchors, games_per_pair, contestants, pc, aborted, llm_idx,
                anchor_idx, game_num, eliminated, all_results, eliminated_at,
                benchmark_scores, config, prev_call, skip_h2h, h2h_results,
                running, engine_log >>

\* a run of benchmark_arena.run_tournament from its "Save results" on: the
\* ladders gave the dict scores, the clock reads the t-th instant
BenchmarkRun ==
  /\ pc = "shell"
  /\ \E t \in (call.now + 1)..Len(Dates) :
       \E scores \in {ScoreDicts[i] : i \in 1..Len(ScoreDicts)} :
         LET record == [version |-> "2.0", date |-> Dates[t],
                        benchmark_scores |-> scores]
             leaderboard ==
               [entries |-> ReadLeaderboard(files, result_files)
                              \o AppendedEntries(scores, t)]
         IN  /\ result_files' =
                  DictSet(DictSet(result_files, results_file(t), record),
                          leaderboard_file, leaderboard)
             /\ files' = files \cup {results_file(t), leaderboard_file}
             /\ call' = [fn |-> "benchmark_arena", now |-> t,
                         wrote |-> {results_file(t), leaderboard_file}]
  /\ UNCHANGED diskFrame

\* main() of generate_leaderboard.py on the directory
AggregationPass ==
  /\ pc = "shell"
  /\ LET entries == load_all_results(RecordsOf(files, result_files),
                                     SortedOrder(Len(GlobResults(files))))
     IN  IF entries = << >>
           THEN /\ UNCHANGED << result_files, files >>
                /\ call' = [fn |-> "generate_leaderboard", now |-> call.now,
                            wrote |-> {}]
           ELSE /\ result_files' =
                     DictSet(result_files, leaderboard_file,
                       [entries |->
                          generate_leaderboard_json(find_best_per_model(entries))])
                /\ files' = files \cup {leaderboard_file}
                /\ call' = [fn |-> "generate_leaderboard", now |-> call.now,
                            wrote |-> {leaderboard_file}]
  /\ UNCHANGED diskFrame

DiskNext ==
  \/ BenchmarkRun
  \/ AggregationPass

DiskSpec == DiskInit /\ [][DiskNext]_vars

(* ------------------------------ C21 ----------------------------------- *)

\* what load_all_results reads from the run records of the directory
LoadedEntries ==
  load_all_results(RecordsOf(files, result_files), SortedOrder(Len(GlobResults(files))))

\* C21: after every benchmark run and every aggregation pass, leaderboard.json
\* holds at most one entry per model, no persisted run of that model has a
\* higher score than its entry.
C21_OneBestEntryPerModel ==
  leaderboard_file \in files =>
    LET entries == ReadLeaderboard(files, result_files)
    IN  /\ \A i, j \in 1..Len(entries) :
             entries[i].model = entries[j].model => i = j
        /\ \A i \in 1..Len(entries) : \A k \in 1..Len(LoadedEntries) :
             LoadedEntries[k].model = entries[i].model =>
               LoadedEntries[k].score <= entries[i].score

(* ------------------------------ C22 ----------------------------------- *)

\* C22: a run record file that exists is still there, with the same content,
\* after every step of a later run or aggregation pass.
C22_RunRecordsImmutable ==
  [][\A n \in files :
       n # leaderboard_file => n \in files' /\ result_files'[n] = result_files[n]]_vars

(* ---------------- historical files with missing fields ---------------- *)

\* the files one merge reads at most
MaxHistoricalFiles == 2

\* data.get(k, default) on a JSON object held as a function of its keys
Get(data, k, default) == IF k \in DOMAIN data THEN data[k] ELSE default

\* anchor_class.split(".")[-1] of the class names historical files hold
LastSegment ==
  [cls \in {"ai.RandomBiasedAI", "ai.abstraction.WorkerRush", "ai.abstraction.LightRush"} |->
     CASE cls = "ai.RandomBiasedAI" -> "RandomBiasedAI"
       [] cls = "ai.abstraction.WorkerRush" -> "WorkerRush"
       [] OTHER -> "LightRush"]

\* the v1.0 fallback table of load_all_results
v1_anchors ==
  [cls \in {"ai.RandomBiasedAI", "ai.abstraction.WorkerRush"} |->
     IF cls = "ai.RandomBiasedAI" THEN [name |-> "RandomBiasedAI", weight |-> 40]
     ELSE [name |-> "WorkerRush", weight |-> 60]]

\* "detailed_results" values: model -> {"reference_games": {class: [game, ...]}},
\* in item order; a game is the dict run_game returned
HistoricalDetails ==
  { << [model |-> ModelNames[1],
        results |-> [reference_games |->
          << [anchor_class |-> "ai.RandomBiasedAI",
              games |-> << [result |-> "win", ticks |-> 400],
                           [result |-> "draw", ticks |-> 1500] >>],
             [anchor_class |-> "ai.abstraction.LightRush",
              games |-> << [result |-> "loss", ticks |-> 900] >>] >>]],
       [model |-> ModelNames[2], results |-> EmptyDict] >>,
    << [model |-> ModelNames[1],
        results |-> [reference_games |->
          << [anchor_class |-> "ai.RandomBiasedAI",
              games |-> << [result |-> "win", ticks |-> 400],
                           [winner |-> 0, ticks |-> 700] >>] >>]] >> }

\* the "anchors" object of a file
HistoricalAnchors ==
  [cls \in {"ai.RandomBiasedAI"} |-> [name |-> "Random", weight |-> 10]]

\* the "opponent_breakdown" object of a file, per model in item order
HistoricalBreakdown ==
  [m \in {ModelNames[1]} |->
     << [name |-> "RandomBiasedAI", wins |-> 1, draws |-> 0, losses |-> 0] >>]

\* the "benchmark_scores" object of a file
HistoricalScores ==
  << [model |-> ModelNames[1], score |-> 400], [model |-> ModelNames[2], score |-> 0] >>

\* a file's object with the keys of ks alone
Restrict(data, ks) == [k \in DOMAIN data \cap ks |-> data[k]]

\* the objects a readable benchmark_*.json file may hold: "date" is there,
\* every other key the merge reads may be missing
HistoricalFiles ==
  { Restrict([version |-> v, date |-> Dates[1], benchmark_scores |-> HistoricalScores,
              opponent_breakdown |-> HistoricalBreakdown, detailed_results |-> d,
              anchors |-> HistoricalAnchors],
             ks \cup {"date"}) :
      v \in {"1.0", "2.0"}, d \in HistoricalDetails,
      ks \in SUBSET {"version", "benchmark_scores", "opponent_breakdown",
                     "detailed_results", "anchors"} }

\* whether g["result"] raises KeyError on a game of the list
RaisesKeyError(games) == \E i \in 1..Len(games) : "result" \notin DOMAIN games[i]

\* sum(1 for g in games if g["result"] == r)
CountResult(games, r) ==
  Cardinality({i \in 1..Len(games) : Get(games[i], "result", "") = r})

\* info.get("name", anchor_class), info looked up in the file's anchors or
\* in the v1.0 fallback table
InfoName(anchors_of_file, cls) ==
  IF cls \in DOMAIN anchors_of_file THEN Get(anchors_of_file[cls], "name", cls)
  ELSE IF cls \in DOMAIN v1_anchors THEN v1_anchors[cls].name
  ELSE LastSegment[cls]

\* the breakdown built from one model's reference_games
FallbackBreakdown(anchors_of_file, results) ==
  LET ref_games == Get(results, "reference_games", << >>)
  IN  [k \in 1..Len(ref_games) |->
         LET games == ref_games[k].games
             wins == CountResult(games, "win")
             draws == CountResult(games, "draw")
         IN  [name |-> InfoName(anchors_of_file, ref_games[k].anchor_class),
              wins |-> wins, draws |-> draws, losses |-> Len(games) - wins - draws]]

\* whether building the breakdowns of the file raises
FallbackRaises(data) ==
  \E i \in 1..Len(data["detailed_results"]) :
    LET ref_games == Get(data["detailed_results"][i].results, "reference_games", << >>)
    IN  \E k \in 1..Len(ref_games) : RaisesKeyError(ref_games[k].games)

\* whether the file takes the path that builds the breakdown from the games
UsesFallback(data) ==
  /\ Get(data, "opponent_breakdown", EmptyDict) = EmptyDict
  /\ "detailed_results" \in DOMAIN data

\* opponent_breakdowns of the file after the loop body's first half
opponent_breakdowns(data) ==
  IF UsesFallback(data)
    THEN [m \in {data["detailed_results"][i].model :
                   i \in 1..Len(data["detailed_results"])} |->
            FallbackBreakdown(Get(data, "anchors", EmptyDict),
              data["detailed_results"][CHOOSE i \in 1..Len(data["detailed_results"]) :
                                         data["detailed_results"][i].model = m].results)]
    ELSE Get(data, "opponent_breakdown", EmptyDict)

\* a score computed again from the rebuilt breakdown under the v1.0 weights
EntryScore_Recomputed(data, k) ==
  LET RECURSIVE Recomputed(_)
      Recomputed(bd) ==
        IF bd = << >> THEN 0
        ELSE (IF Head(bd).wins = 0 THEN 0
              ELSE IF Head(bd).name = "RandomBiasedAI" THEN 400
              ELSE IF Head(bd).name = "WorkerRush" THEN 600 ELSE 0)
             + Recomputed(Tail(bd))
  IN  IF UsesFallback(data)
        THEN Recomputed(Get(opponent_breakdowns(data),
                            Get(data, "benchmark_scores", << >>)[k].model, << >>))
        ELSE Get(data, "benchmark_scores", << >>)[k].score

\* the score an entry of the file carries for the k-th item of scores
EntryScore(data, k) == Get(data, "benchmark_scores", << >>)[k].score

\* the entries load_all_results appends for the i-th file
HistoricalEntriesOf(datas, i) ==
  LET data == datas[i]
      scores == Get(data, "benchmark_scores", << >>)
  IN  [k \in 1..Len(scores) |->
         [model |-> scores[k].model,
          score |-> EntryScore(data, k),
          version |-> Get(data, "version", "1.0"),
          format |-> Get(data, "format", "full"),
          date |-> Get(data, "date", ""),
          opponents |-> Get(opponent_breakdowns(data), scores[k].model, << >>),
          source_file |-> i]]

\* whether load_all_results ends with an uncaught KeyError on these files
LoadRaises(datas) ==
  \E i \in 1..Len(datas) : UsesFallback(datas[i]) /\ FallbackRaises(datas[i])

RECURSIVE LoadHistoricalFrom(_, _)
LoadHistoricalFrom(datas, i) ==
  IF i > Len(datas) THEN << >>
  ELSE HistoricalEntriesOf(datas, i) \o LoadHistoricalFrom(datas, i + 1)

\* all_entries of load_all_results on files that do not make it raise
LoadHistorical(datas) == LoadHistoricalFrom(datas, 1)

\* the results directory holds historical files, in sorted name order
SchemaInit ==
  /\ program = "generate_leaderboard"
  /\ anchors = ANCHORS
  /\ games_per_pair = 1
  /\ contestants = << >>
  /\ pc = "merge"
  /\ aborted = FALSE
  /\ llm_idx = 0
  /\ anchor_idx = 0
  /\ game_num = 0
  /\ eliminated = FALSE
  /\ all_results = EmptyDict
  /\ eliminated_at = EmptyDict
  /\ benchmark_scores = EmptyDict
  /\ config = InitialConfig
  /\ call = NoCall
  /\ prev_call = NoCall
  /\ skip_h2h = FALSE
  /\ result_files \in UNION {[1..n -> HistoricalFiles] : n \in 1..MaxHistoricalFiles}
  /\ h2h_results = << >>
  /\ files = {}
  /\ running = {}
  /\ engine_log = << >>

\* main() of generate_leaderboard.py on the historical files
MergeHistorical ==
  /\ pc = "merge"
  /\ IF LoadRaises(result_files)
       THEN /\ pc' = "KeyError"
            /\ call' = [fn |-> "generate_leaderboard", entries |-> << >>,
                        leaderboard |-> << >>]
       ELSE LET entries == LoadHistorical(result_files)
            IN  /\ pc' = "merged"
                /\ call' = [fn |-> "generate_leaderboard", entries |-> entries,
                            leaderboard |->
                              IF entries = << >> THEN << >>
                              ELSE generate_leaderboard_json(find_best_per_model(entries))]
  /\ UNCHANGED mergeFrame

SchemaNext == MergeHistorical

SchemaSpec == SchemaInit /\ [][SchemaNext]_vars

(* ------------------------------ C23 ----------------------------------- *)

\* the models a historical file records
ModelsRecorded(data) ==
  LET scores == Get(data, "benchmark_scores", << >>)
      details == Get(data, "detailed_results", << >>)
  IN  {scores[k].model : k \in 1..Len(scores)}
        \cup {details[k].model : k \in 1..Len(details)}
        \cup DOMAIN Get(data, "opponent_breakdown", EmptyDict)

\* C23: whatever fields the historical files lack, the merge ends without an
\* exception and every model a file records has an entry from that file.
C23_NoRecordDropped ==
  pc # "merge" =>
    /\ pc = "merged"
    /\ \A i \in 1..Len(result_files) : \A m \in ModelsRecorded(result_files[i]) :
         \E k \in 1..Len(call.entries) :
           call.entries[k].model = m /\ call.entries[k].source_file = i

(* ------------------------------ C26 ----------------------------------- *)

\* the score the i-th file persists for model m
PersistedScore(datas, i, m) ==
  LET scores == Get(datas[i], "benchmark_scores", << >>)
  IN  scores[CHOOSE k \in 1..Len(scores) : scores[k].model = m].score

\* C26: every entry the merge loads, and every entry of the leaderboard it
\* writes, carries the score its source file persists for its model, for
\* files of every version and for files whose breakdown is built from the
\* games with the v1.0 fallback table.
C26_ScoresCarriedOver ==
  pc = "merged" =>
    /\ \A k \in 1..Len(call.entries) :
         call.entries[k].score =
           PersistedScore(result_files, call.entries[k].source_file, call.entries[k].model)
    /\ \A k \in 1..Len(call.leaderboard) :
         call.leaderboard[k].score =
           PersistedScore(result_files, call.leaderboard[k].source_file,
                          call.leaderboard[k].model)

\* a v1.0 file without breakdown and anchors and a 2.0 file are merged, the
\* leaderboard carries an entry of the file whose breakdown was rebuilt
C26_Witness ==
  /\ pc = "merged"
  /\ Len(result_files) = 2
  /\ UsesFallback(result_files[1])
  /\ "anchors" \notin DOMAIN result_files[1]
  /\ Get(result_files[1], "version", "1.0") = "1.0"
  /\ Get(result_files[2], "version", "1.0") = "2.0"
  /\ \E k \in 1..Len(call.leaderboard) :
       /\ call.leaderboard[k].source_file = 1
       /\ call.leaderboard[k].opponents # << >>
       /\ call.leaderboard[k].score = 400

(* ------------------- the head-to-head matrix of the site -------------- *)

\* the head_to_head game objects one build_h2h_matrix call reads at most
MaxH2HRecords == 3

\* the tournament_*.json files there can be, in sorted name order
TournamentFiles ==
  << "tournament_2026-01-10_10-00.json", "tournament_2026-02-01_09-30.json" >>

\* the game objects run_tournament appends to h2h_results: the dict run_game
\* returned, with player0 and player1 set to the two display names
H2HRecords ==
  {game \in [player0 : {ModelNames[i] : i \in 1..Len(ModelNames)},
             player1 : {ModelNames[i] : i \in 1..Len(ModelNames)},
             result : {"win", "loss", "draw", "timeout"}] :
     ModelNames[1] \in {game.player0, game.player1}}

\* {"wins": 0, "losses": 0, "draws": 0}
ZeroCell == [wins |-> 0, losses |-> 0, draws |-> 0]

\* cell[field] = 1
Bump_Overwrite(cell, field) == [cell EXCEPT ![field] = 1]

\* cell[field] += 1
Bump(cell, field) == [cell EXCEPT ![field] = @ + 1]

\* the matrix once h2h[p0][p1] and h2h[p1][p0] exist; h2h[x][y] is held as
\* the value at << x, y >>
WithCells(h2h, p0, p1) ==
  [pr \in DOMAIN h2h \cup {<< p0, p1 >>, << p1, p0 >>} |->
     IF pr \in DOMAIN h2h THEN h2h[pr] ELSE ZeroCell]

\* h2h[a][b][field] += 1
Increment(h2h, a, b, field) == [h2h EXCEPT ![<< a, b >>] = Bump(@, field)]

\* the loop body that counts a game for player0 alone
AddGame_OneSided(h2h, game) ==
  LET p0 == Get(game, "player0", "")
      p1 == Get(game, "player1", "")
      result == Get(game, "result", "")
      cells == WithCells(h2h, p0, p1)
  IN  IF result = "win" THEN Increment(cells, p0, p1, "wins")
      ELSE IF result = "loss" THEN Increment(cells, p0, p1, "losses")
      ELSE IF result = "draw" THEN Increment(cells, p0, p1, "draws")
      ELSE cells

\* the body of the loop over data.get("head_to_head", [])
AddGame(h2h, game) ==
  LET p0 == Get(game, "player0", "")
      p1 == Get(game, "player1", "")
      result == Get(game, "result", "")
      cells == WithCells(h2h, p0, p1)
  IN  IF result = "win"
        THEN Increment(Increment(cells, p0, p1, "wins"), p1, p0, "losses")
      ELSE IF result = "loss"
        THEN Increment(Increment(cells, p0, p1, "losses"), p1, p0, "wins")
      ELSE IF result = "draw"
        THEN Increment(Increment(cells, p0, p1, "draws"), p1, p0, "draws")
      ELSE cells

\* build_h2h_matrix starts on a directory of tournament files; call.games
\* records the game objects read so far, call.file the file being read
SiteInit ==
  /\ program = "update_site_data"
  /\ anchors = tournament_ANCHORS
  /\ games_per_pair = 1
  /\ contestants = << >>
  /\ pc = "h2h_loop"
  /\ aborted = FALSE
  /\ llm_idx = 0
  /\ anchor_idx = 0
  /\ game_num = 0
  /\ eliminated = FALSE
  /\ all_results = EmptyDict
  /\ eliminated_at = EmptyDict
  /\ benchmark_scores = EmptyDict
  /\ config = InitialConfig
  /\ call = [fn |-> "build_h2h_matrix", file |-> 1, games |-> << >>, h2h |-> EmptyDict]
  /\ prev_call = NoCall
  /\ skip_h2h = FALSE
  /\ result_files = << >>
  /\ h2h_results = << >>
  /\ files \in {{TournamentFiles[i] : i \in 1..n} : n \in 0..Len(TournamentFiles)}
  /\ running = {}
  /\ engine_log = << >>

siteFrame == << program, anchors, games_per_pair, contestants, aborted, llm_idx,
                anchor_idx, game_num, eliminated, all_results, eliminated_at,
                benchmark_scores, config, prev_call, skip_h2h, result_files,
                h2h_results, files, running, engine_log >>

\* the next game object of the file being read
ReadGame ==
  /\ pc = "h2h_loop"
  /\ call.file <= Cardinality(files)
  /\ Len(call.games) < MaxH2HRecords
  /\ \E game \in H2HRecords :
       call' = [call EXCEPT !.games = Append(@, [file |-> call.file, game |-> game]),
                            !.h2h = AddGame(@, game)]
  /\ UNCHANGED << siteFrame, pc >>

\* the file's head_to_head list is exhausted
NextFile ==
  /\ pc = "h2h_loop"
  /\ call.file <= Cardinality(files)
  /\ call' = [call EXCEPT !.file = @ + 1]
  /\ UNCHANGED << siteFrame, pc >>

\* return h2h
ReturnMatrix ==
  /\ pc = "h2h_loop"
  /\ call.file > Cardinality(files)
  /\ pc' = "returned"
  /\ UNCHANGED << siteFrame, call >>

SiteNext ==
  \/ ReadGame
  \/ NextFile
  \/ ReturnMatrix

SiteSpec == SiteInit /\ [][SiteNext]_vars

(* ------------------------------ C24 ----------------------------------- *)

\* C24: after merging any files, and after every game on the way, the cell
\* of (B, A) exists whenever the cell of (A, B) does, wins(A,B) is
\* losses(B,A), losses(A,B) is wins(B,A) and draws(A,B) is draws(B,A).
C24_MatrixSymmetric ==
  \A pr \in DOMAIN call.h2h :
    LET rev == << pr[2], pr[1] >>
    IN  /\ rev \in DOMAIN call.h2h
        /\ call.h2h[pr].wins = call.h2h[rev].losses
        /\ call.h2h[pr].losses = call.h2h[rev].wins
        /\ call.h2h[pr].draws = call.h2h[rev].draws

\* two files were merged; model_a beat model_b once, lost once and drew once
C24_Witness ==
  /\ pc = "returned"
  /\ Cardinality(files) = 2
  /\ \E i \in 1..Len(call.games) : call.games[i].file = 2
  /\ << ModelNames[1], ModelNames[2] >> \in DOMAIN call.h2h
  /\ call.h2h[<< ModelNames[1], ModelNames[2] >>] = [wins |-> 1, losses |-> 1, draws |-> 1]

(* ------------------------------ C25 ----------------------------------- *)

\* the recorded games between a and b, in either order of play
DirectGames(a, b) ==
  {i \in 1..Len(call.games) :
     {call.games[i].game.player0, call.games[i].game.player1} = {a, b}}

\* the recorded games between a and b that ended in a win, a loss or a draw
DecidedGames(a, b) ==
  {i \in DirectGames(a, b) : call.games[i].game.result \in {"win", "loss", "draw"}}

\* wins + losses + draws of a cell
CellTotal(cell) == cell.wins + cell.losses + cell.draws

\* the cells of h2h are kept and no counter of them decreases in a step
CountersOnlyGrow ==
  \A pr \in DOMAIN call.h2h :
    /\ pr \in DOMAIN call.h2h'
    /\ call.h2h'[pr].wins >= call.h2h[pr].wins
    /\ call.h2h'[pr].losses >= call.h2h[pr].losses
    /\ call.h2h'[pr].draws >= call.h2h[pr].draws

\* C25 as stated: for every pair in the matrix, wins + losses + draws is the
\* number of recorded direct games between the two.
C25_TotalIsGamesRecorded ==
  \A pr \in DOMAIN call.h2h :
    CellTotal(call.h2h[pr]) = Cardinality(DirectGames(pr[1], pr[2]))

\* C25 as amended: a recorded game whose result is win, loss or draw adds
\* one to one counter of (A,B) and one to the mirrored counter of (B,A), a
\* game with any other result (timeout) adds nothing; no counter ever
\* decreases and no cell is removed; so wins + losses + draws of (A,B) is the
\* number of recorded games between A and B that ended in a win, a loss or a
\* draw, counted twice when A and B are the same name.
C25_TotalIsDecidedGames ==
  /\ [](\A pr \in DOMAIN call.h2h :
          CellTotal(call.h2h[pr]) =
            Cardinality(DecidedGames(pr[1], pr[2])) * (IF pr[1] = pr[2] THEN 2 ELSE 1))
  /\ [][CountersOnlyGrow]_vars

\* a second file was merged on top of a first; the pair has a game that
\* ended in a timeout and decided games in both orders of play
C25_Witness ==
  /\ pc = "returned"
  /\ Len(call.games) = MaxH2HRecords
  /\ call.games[1].file = 1 /\ call.games[MaxH2HRecords].file = 2
  /\ \E i, j, k \in DirectGames(ModelNames[1], ModelNames[2]) :
       /\ call.games[i].game.result = "timeout"
       /\ call.games[j].game.result = "win" /\ call.games[j].game.player0 = ModelNames[1]
       /\ call.games[k].game.result = "win" /\ call.games[k].game.player0 = ModelNames[2]
  /\ CellTotal(call.h2h[<< ModelNames[1], ModelNames[2] >>]) = 2

(* -------------------- the format-translation proxy -------------------- *)

\* the connections clients make to the proxy in one execution
MaxRequests == 3

\* the request lines the handler tells apart
RequestLines == {"POST /api/generate", "GET /"}

\* how urllib.request.urlopen(req, timeout=60) and the reading of its
\* response end
UrlopenOutcomes == {"response", "HTTPError", "timeout"}

\* main() has built HTTPServer(("127.0.0.1", port), OllamaProxyHandler) and is
\* in serve_forever.  call.arrived: the request line of every connection made,
\* call.backlog: the connections waiting in the listen queue, call.current:
\* the connection being handled, call.answered: the status sent on each
\* answered connection, call.stats: the module's stats dict, call.completed:
\* the _handle_generate calls that have ended
ProxyInit ==
  /\ program = "openai_proxy"
  /\ anchors = ANCHORS
  /\ games_per_pair = 1
  /\ contestants = << >>
  /\ pc = "serve_forever"
  /\ aborted = FALSE
  /\ llm_idx = 0
  /\ anchor_idx = 0
  /\ game_num = 0
  /\ eliminated = FALSE
  /\ all_results = EmptyDict
  /\ eliminated_at = EmptyDict
  /\ benchmark_scores = EmptyDict
  /\ config = InitialConfig
  /\ call = [fn |-> "serve_forever", arrived |-> << >>, backlog |-> << >>,
             current |-> 0, answered |-> EmptyDict,
             stats |-> [requests |-> 0, errors |-> 0], completed |-> 0]
  /\ prev_call = NoCall
  /\ skip_h2h = FALSE
  /\ result_files = << >>
  /\ h2h_results = << >>
  /\ files = {}
  /\ running = {}
  /\ engine_log = << >>

proxyFrame == << program, anchors, games_per_pair, contestants, aborted, llm_idx,
                 anchor_idx, game_num, eliminated, all_results, eliminated_at,
                 benchmark_scores, config, prev_call, skip_h2h, result_files,
                 h2h_results, files, running, engine_log >>

\* a client connects and sends a request; the kernel queues the connection
ClientConnects ==
  /\ Len(call.arrived) < MaxRequests
  /\ \E line \in RequestLines :
       call' = [call EXCEPT !.arrived = Append(@, line),
                            !.backlog = Append(@, Len(call.arrived) + 1)]
  /\ UNCHANGED << proxyFrame, pc >>

\* serve_forever takes the next connection and runs its handler in the same
\* thread (HTTPServer has no ThreadingMixIn): do_GET answers at once,
\* do_POST enters _handle_generate and blocks in urlopen
AcceptRequest ==
  /\ pc = "serve_forever"
  /\ call.backlog # << >>
  /\ LET id == Head(call.backlog)
     IN  IF call.arrived[id] = "GET /"
           THEN /\ call' = [call EXCEPT !.backlog = Tail(@),
                                        !.answered = DictSet(@, id, 200)]
                /\ pc' = pc
           ELSE /\ call' = [call EXCEPT !.backlog = Tail(@), !.current = id]
                /\ pc' = "urlopen"
  /\ UNCHANGED proxyFrame

\* urlopen ends, the rest of _handle_generate runs, the handler returns to
\* serve_forever; client_gone: the client has closed the connection, so that
\* writing the response raises BrokenPipeError
UrlopenEnds ==
  /\ pc = "urlopen"
  /\ \E outcome \in UrlopenOutcomes, client_gone \in BOOLEAN :
       LET id == call.current
           requests == call.stats.requests + (IF outcome = "response" THEN 1 ELSE 0)
           errors == call.stats.errors
                       + (IF outcome # "response" \/ client_gone THEN 1 ELSE 0)
           status == CASE outcome = "response" -> 200
                       [] outcome = "HTTPError" -> 429
                       [] OTHER -> 500
       IN  call' = [call EXCEPT !.current = 0,
                                !.answered = IF client_gone THEN @ ELSE DictSet(@, id, status),
                                !.stats = [requests |-> requests, errors |-> errors],
                                !.completed = @ + 1]
  /\ pc' = "serve_forever"
  /\ UNCHANGED proxyFrame

ProxyNext ==
  \/ ClientConnects
  \/ AcceptRequest
  \/ UrlopenEnds

ProxySpec == ProxyInit /\ [][ProxyNext]_vars

(* ------------------------------ C30 ----------------------------------- *)

\* C30: while a generate request waits on the upstream, a connection that
\* waits in the listen queue can be accepted and answered; a generate request
\* whose upstream call has ended is counted once, in requests or in errors.
C30_ListenerNotBlocked ==
  /\ (pc = "urlopen" /\ call.backlog # << >>) => ENABLED AcceptRequest
  /\ call.stats.requests + call.stats.errors = call.completed

====
